---------------------------- MODULE Spec2Model ----------------------------
(***************************************************************************)
(* A model of the notebooks of the Netflix recommendation repository:     *)
(* the feature-preference data pipeline (movie x feature matrix, user x    *)
(* feature matrix, ratings loading loop, rating labels), the model         *)
(* selection and the fits of the clustering notebooks, the correlation     *)
(* analysis, and the feature pruning of the classification notebook.       *)
(*                                                                         *)
(* Every notebook is run top to bottom, one cell after the other; pc is    *)
(* the cell that runs next.  The notebooks read pickles and text files     *)
(* that are not part of the repository: these are the inputs, drawn from   *)
(* bounded sets by the initial-state predicates.  Each group of cells has  *)
(* a specification of its own (SpecMovieMatrix, SpecUsers, ...).           *)
(*                                                                         *)
(* Representation.  Ids (movie ids, user ids, feature ids) are integers.   *)
(* A dict is a function; the insertion order of the keys of a pickled      *)
(* dict, which list(d.keys()) and d.items() follow, is kept beside it in   *)
(* insertion_order.  A list is a sequence.  A DataFrame                    *)
(* is a record [index, columns, values] with index and columns the label   *)
(* sequences and values[i][j] the cell at row position i and column        *)
(* position j.  Feature names are sequences of one-character strings.      *)
(* Preference ratios and importances are integers in fixed units.          *)
(***************************************************************************)
EXTENDS Integers, Sequences, FiniteSets, TLC

(***************************************************************************)
(* Bounds of the model.                                                    *)
(***************************************************************************)
\* movies in movie_features (about 9,000 in the data)
NumMovies == 3
\* feature ids of the feature mapping (450 in the data)
NumFeatures == 2
\* users in user_profiles (10,000 in the data)
NumUsers == 3

\* users sampled by the classification notebook; k = 30 in the notebook,
\* scaled to the number of users of the model
k == 2

\* the retention threshold of the preprocessing; MIN_OCCURRENCES = 20 in the
\* notebooks, scaled to the number of movies of the model
MIN_OCCURRENCES == 2

\* ratings loaded into ratings_data (up to 1,000,000 in the notebook)
MaxRatings == 3
\* columns and rows of the classifier's input X
NumXColumns == 3
NumXRows == 1
\* k_range = range(K_START, K_STOP); K_STOP = 21 in the notebooks
K_STOP == 5
\* silhouette scores are drawn from the levels 0..MaxScore
MaxScore == 1

(***************************************************************************)
(* Program constants.                                                      *)
(***************************************************************************)
\* the star ratings of the Netflix data
MIN_STARS == 1
MAX_STARS == 5
\* lambda x: 1 if x >= 4 else 0
HIGH_RATING == 4
\* importance_threshold = 0.0005, in units of 0.0001
importance_threshold == 5
\* k_range = range(2, 21)
K_START == 2

Movies == 1..NumMovies
FeatureIds == 0..(NumFeatures - 1)
Users == 1..NumUsers

(***************************************************************************)
(* Helpers: sequences, dicts, DataFrames.                                  *)
(***************************************************************************)
Range(s) == {s[i] : i \in DOMAIN s}

Min(S) == CHOOSE x \in S : \A y \in S : x <= y

RECURSIVE SortedSeq(_)
SortedSeq(S) == IF S = {} THEN <<>>
                ELSE <<Min(S)>> \o SortedSeq(S \ {Min(S)})

\* list(d.keys()): the keys of d in the order they were inserted
KeysOf(d, inserted) == SelectSeq(inserted, LAMBDA key : key \in DOMAIN d)

\* an order of the elements of S: ascending, descending, or ascending from
\* the second element with the first element last
Hows == {"ascending", "descending", "rotated"}

Ordered(how, S) ==
    LET ascending == SortedSeq(S)
        n == Len(ascending)
    IN  CASE how = "ascending"  -> ascending
          [] how = "descending" -> [i \in 1..n |-> ascending[n + 1 - i]]
          [] how = "rotated"    -> [i \in 1..n |-> ascending[(i % n) + 1]]

\* the sequences that list every element of S once
Arrangements(S) ==
    {q \in [1..Cardinality(S) -> S] : \A i, j \in 1..Cardinality(S) : i # j => q[i] # q[j]}

\* pd.DataFrame(fill, index=index, columns=columns)
NewDataFrame(fill, index, columns) ==
    [index   |-> index,
     columns |-> columns,
     values  |-> [i \in 1..Len(index) |-> [j \in 1..Len(columns) |-> fill]]]

EmptyFrame == NewDataFrame(0, <<>>, <<>>)

\* a mutant of LocSetCols: the column indexer is ignored, the whole row is set
LocSetRow(df, row, cols, v) ==
    [df EXCEPT !.values =
        [i \in 1..Len(df.index) |->
            [j \in 1..Len(df.columns) |->
                IF df.index[i] = row THEN v ELSE df.values[i][j]]]]

\* df.loc[row, cols] = v, with cols a list of column labels of df
LocSetCols(df, row, cols, v) ==
    [df EXCEPT !.values =
        [i \in 1..Len(df.index) |->
            [j \in 1..Len(df.columns) |->
                IF df.index[i] = row /\ df.columns[j] \in Range(cols)
                THEN v ELSE df.values[i][j]]]]

(***************************************************************************)
(* Feature names.  The names the preprocessing gives are not in the        *)
(* repository; the notebooks only test their prefix.                       *)
(***************************************************************************)
NameGenreWar   == <<"G","e","n","r","e","_","W","a","r">>
NameGeneKelly  == <<"G","e","n","e"," ","K","e","l","l","y">>
NameRuntime90  == <<"R","u","n","t","i","m","e","_","9","0">>
NameJohnWayne  == <<"J","o","h","n"," ","W","a","y","n","e">>
NameDecade80   == <<"D","e","c","a","d","e","_","8","0">>
NameRune       == <<"R","u","n","e">>

NameTable == <<NameGenreWar, NameGeneKelly, NameRuntime90,
               NameJohnWayne, NameDecade80, NameRune>>

\* the feature mapping whose names start at place `offset` of the table
NamesFrom(offset) ==
    [f \in FeatureIds |-> NameTable[((f + offset) % Len(NameTable)) + 1]]

VARIABLES
    pc,
    \* the insertion order of the keys of the pickled dicts
    insertion_order,
    \* movie data
    raw_movie_features, movie_features, id_to_feature, movie_feature_matrix,
    movie_feature_matrix_no_meta, movie_data, movie_data_filtered,
    \* user data
    user_profiles, sampled_user_ids, sampled_user_profiles,
    user_feature_matrix, user_ids_set, user_features, user_features_df,
    \* ratings
    ratings_data, ratings_df,
    \* feature pruning
    X, y, importances, low_importance_features, X_reduced,
    \* K-Means model selection
    selection, silhouette_scores, best_k, kmeans_n_clusters,
    \* user clustering: the fits made so far and the principal components
    fits, user_features_pca,
    \* the ratings loading loop
    training_set, rating_files, movie_ids_set, file_pos, line_pos,
    total_entries

movieVars == <<raw_movie_features, movie_features, id_to_feature,
               movie_feature_matrix, movie_feature_matrix_no_meta,
               movie_data, movie_data_filtered>>
userVars == <<user_profiles, sampled_user_ids, sampled_user_profiles,
              user_feature_matrix, user_ids_set, user_features,
              user_features_df>>
ratingVars == <<ratings_data, ratings_df>>
pruneVars == <<X, y, importances, low_importance_features, X_reduced>>
selectionVars == <<selection, silhouette_scores, best_k, kmeans_n_clusters>>
fitVars == <<fits, user_features_pca>>
loadVars == <<training_set, rating_files, movie_ids_set, file_pos, line_pos,
             total_entries>>

vars == <<pc, insertion_order, movieVars, userVars, ratingVars, pruneVars,
          selectionVars, fitVars, loadVars>>

\* the dicts movie_features, id_to_feature and user_profiles filled in the
\* given orders
InsertionOrder(how_movies, how_features, how_users) ==
    [movie_features |-> Ordered(how_movies, Movies),
     id_to_feature  |-> Ordered(how_features, FeatureIds),
     user_profiles  |-> Ordered(how_users, Users)]

NoInsertionOrder ==
    [movie_features |-> <<>>, id_to_feature |-> <<>>, user_profiles |-> <<>>]

\* a list of the elements of S: in one of the orders, or in descending
\* order with the first element listed once more at the end
Listed(how, S) ==
    IF how = "repeated"
    THEN LET descending == Ordered("descending", S)
         IN  IF descending = <<>> THEN <<>>
             ELSE Append(descending, descending[1])
    ELSE Ordered(how, S)

\* the lists of feature ids of the movies: any features, listed in one of
\* the given ways
MovieFeatureInputs(hows) ==
    UNION {{[m \in Movies |-> Listed(how, S[m])] :
               S \in [Movies -> SUBSET FeatureIds]} : how \in hows}

\* the variables a group of cells does not use
NoMovieData ==
    /\ raw_movie_features = <<>>
    /\ movie_features = <<>>
    /\ id_to_feature = <<>>
    /\ movie_feature_matrix = EmptyFrame
    /\ movie_feature_matrix_no_meta = EmptyFrame
    /\ movie_data = EmptyFrame
    /\ movie_data_filtered = EmptyFrame

NoUserData ==
    /\ user_profiles = <<>>
    /\ sampled_user_ids = <<>>
    /\ sampled_user_profiles = <<>>
    /\ user_feature_matrix = EmptyFrame
    /\ user_ids_set = {}
    /\ user_features = <<>>
    /\ user_features_df = EmptyFrame

NoRatings ==
    /\ ratings_data = <<>>
    /\ ratings_df = <<>>

NoPruning ==
    /\ X = EmptyFrame
    /\ y = <<>>
    /\ importances = <<>>
    /\ low_importance_features = <<>>
    /\ X_reduced = EmptyFrame

NoSelection ==
    /\ selection = "none"
    /\ silhouette_scores = <<>>
    /\ best_k = 0
    /\ kmeans_n_clusters = 0

NoFits ==
    /\ fits = <<>>
    /\ user_features_pca = <<>>

NoLoading ==
    /\ training_set = <<>>
    /\ rating_files = <<>>
    /\ movie_ids_set = {}
    /\ file_pos = 0
    /\ line_pos = 0
    /\ total_entries = 0

(***************************************************************************)
(* Create Movie Feature Matrix (classification and movie clustering).      *)
(***************************************************************************)
RECURSIVE FillMovieFeatureMatrix(_, _, _)
FillMovieFeatureMatrix(df, items, keys) ==
    IF keys = <<>> THEN df
    ELSE FillMovieFeatureMatrix(
             LocSetCols(df, Head(keys), items[Head(keys)], 1),
             items, Tail(keys))

\* the matrix the cell builds from movie_features and id_to_feature
BuiltMovieFeatureMatrix ==
    LET movie_ids   == KeysOf(movie_features, insertion_order.movie_features)
        feature_ids == KeysOf(id_to_feature, insertion_order.id_to_feature)
    IN  FillMovieFeatureMatrix(NewDataFrame(0, movie_ids, feature_ids),
                               movie_features, movie_ids)

CreateMovieFeatureMatrix ==
    /\ pc = "create_movie_feature_matrix"
    /\ movie_feature_matrix' = BuiltMovieFeatureMatrix
    /\ pc' = "done"
    /\ UNCHANGED <<raw_movie_features, movie_features, id_to_feature,
                   movie_data, movie_data_filtered,
                   movie_feature_matrix_no_meta>>
    /\ UNCHANGED <<userVars, ratingVars, pruneVars, selectionVars,
                   fitVars, loadVars>>
    /\ UNCHANGED insertion_order

InitMovieMatrix ==
    /\ pc = "create_movie_feature_matrix"
    /\ \E how_movies \in Hows, how_features \in Hows :
           /\ insertion_order = InsertionOrder(how_movies, how_features, "ascending")
           /\ movie_features \in MovieFeatureInputs({how_features, "repeated"})
    /\ raw_movie_features = <<>>
    /\ id_to_feature = NamesFrom(0)
    /\ movie_feature_matrix = EmptyFrame
    /\ movie_feature_matrix_no_meta = EmptyFrame
    /\ movie_data = EmptyFrame
    /\ movie_data_filtered = EmptyFrame
    /\ NoUserData /\ NoRatings /\ NoPruning /\ NoSelection
    /\ NoFits /\ NoLoading

NextMovieMatrix == CreateMovieFeatureMatrix

SpecMovieMatrix == InitMovieMatrix /\ [][NextMovieMatrix]_vars

\* C1: once the matrix is built it is the one-hot encoding of movie_features:
\* exactly one row per movie of movie_features, exactly one column per feature
\* id of id_to_feature, and the entry of movie m and feature f is 1 when f is
\* listed in movie_features[m] and 0 otherwise.
MovieFeatureMatrixIsOneHot ==
    pc = "done" =>
        LET df == movie_feature_matrix IN
        /\ Len(df.index) = Cardinality(DOMAIN movie_features)
        /\ Range(df.index) = DOMAIN movie_features
        /\ Len(df.columns) = Cardinality(DOMAIN id_to_feature)
        /\ Range(df.columns) = DOMAIN id_to_feature
        /\ \A i \in 1..Len(df.index) : \A j \in 1..Len(df.columns) :
               df.values[i][j] =
                   IF df.columns[j] \in Range(movie_features[df.index[i]])
                   THEN 1 ELSE 0

\* a built matrix in which one movie has one feature and lacks another, and
\* another movie has no feature at all
MovieFeatureMatrixWitness ==
    /\ pc = "done"
    /\ \E i \in 1..Len(movie_feature_matrix.index) :
           /\ \E j \in 1..Len(movie_feature_matrix.columns) :
                  movie_feature_matrix.values[i][j] = 1
           /\ \E j \in 1..Len(movie_feature_matrix.columns) :
                  movie_feature_matrix.values[i][j] = 0
    /\ \E m \in DOMAIN movie_features : movie_features[m] = <<>>

(***************************************************************************)
(* The preprocessing that writes movie_features_20.pickle and              *)
(* feature_mapping_20.pickle.  Its notebooks are not among the source      *)
(* files; it is modelled from the description: a feature is retained only  *)
(* if it occurs in at least MIN_OCCURRENCES movies.  The retained features *)
(* are numbered from 0 and every movie keeps its retained features.        *)
(***************************************************************************)
Occurrences(raw, f) == Cardinality({m \in DOMAIN raw : f \in raw[m]})

\* a mutant of RetainedFeatures: the threshold is off by one
RetainedFeaturesOffByOne(raw) ==
    {f \in UNION {raw[m] : m \in DOMAIN raw} :
        Occurrences(raw, f) >= MIN_OCCURRENCES - 1}

RetainedFeatures(raw) ==
    {f \in UNION {raw[m] : m \in DOMAIN raw} :
        Occurrences(raw, f) >= MIN_OCCURRENCES}

Preprocess ==
    /\ pc = "preprocess"
    /\ LET retained == SortedSeq(RetainedFeatures(raw_movie_features))
           ids      == 0..(Len(retained) - 1)
       IN  /\ id_to_feature' = [i \in ids |-> NameTable[retained[i + 1]]]
           /\ movie_features' =
                  [m \in DOMAIN raw_movie_features |->
                      SortedSeq({i \in ids :
                                    retained[i + 1] \in raw_movie_features[m]})]
    /\ pc' = "create_movie_feature_matrix"
    /\ UNCHANGED <<raw_movie_features, movie_feature_matrix, movie_data,
                   movie_data_filtered,
                   movie_feature_matrix_no_meta>>
    /\ UNCHANGED <<userVars, ratingVars, pruneVars, selectionVars,
                   fitVars, loadVars>>
    /\ insertion_order' = InsertionOrder("ascending", "ascending", "ascending")

\* the raw features of a movie are places of the name table
InitPreprocess ==
    /\ pc = "preprocess"
    /\ insertion_order = NoInsertionOrder
    /\ raw_movie_features \in [Movies -> SUBSET (1..NumFeatures)]
    /\ movie_features = <<>>
    /\ id_to_feature = <<>>
    /\ movie_feature_matrix = EmptyFrame
    /\ movie_feature_matrix_no_meta = EmptyFrame
    /\ movie_data = EmptyFrame
    /\ movie_data_filtered = EmptyFrame
    /\ NoUserData /\ NoRatings /\ NoPruning /\ NoSelection
    /\ NoFits /\ NoLoading

NextPreprocess == Preprocess \/ CreateMovieFeatureMatrix

SpecPreprocess == InitPreprocess /\ [][NextPreprocess]_vars

ColumnSum(df, j) ==
    Cardinality({i \in 1..Len(df.index) : df.values[i][j] = 1})

\* C9: every feature id of the feature mapping is listed by at least
\* MIN_OCCURRENCES movies of movie_features, and every column of the movie
\* feature matrix sums to at least MIN_OCCURRENCES.
EveryFeatureOccursOften ==
    /\ pc # "preprocess" =>
           \A f \in DOMAIN id_to_feature :
               Cardinality({m \in DOMAIN movie_features :
                               f \in Range(movie_features[m])}) >= MIN_OCCURRENCES
    /\ pc = "done" =>
           \A j \in 1..Len(movie_feature_matrix.columns) :
               ColumnSum(movie_feature_matrix, j) >= MIN_OCCURRENCES

\* a raw feature was dropped for occurring too rarely, and a retained one
\* occurs in exactly MIN_OCCURRENCES movies
EveryFeatureOccursOftenWitness ==
    /\ pc = "done"
    /\ \E f \in 1..NumFeatures :
           /\ Occurrences(raw_movie_features, f) > 0
           /\ Occurrences(raw_movie_features, f) < MIN_OCCURRENCES
    /\ \E j \in 1..Len(movie_feature_matrix.columns) :
           ColumnSum(movie_feature_matrix, j) = MIN_OCCURRENCES

(***************************************************************************)
(* User profiles.  user_profiles[u].feature_preferences maps the feature   *)
(* ids the user has a preference for to the preference ratio, in           *)
(* hundredths; a stored ratio may itself be -1.  The profiles are an       *)
(* input: each user has preferences for any subset of the feature ids.     *)
(***************************************************************************)
ProfileRatio(u, f) == IF (u + f) % 3 = 0 THEN -1 ELSE 100 * u + 10 * f

ProfileOver(u, S) == [feature_preferences |-> [f \in S |-> ProfileRatio(u, f)]]

UserProfileInputs ==
    {[u \in Users |-> ProfileOver(u, S[u])] : S \in [Users -> SUBSET FeatureIds]}

(***************************************************************************)
(* Classification: sample k users, build the user feature matrix.          *)
(***************************************************************************)
\* a mutant of Choice: sampling with replacement
ChoiceWithReplacement(a, size) == [1..size -> Range(a)]

\* np.random.choice(a, size=size, replace=False): any arrangement of `size`
\* distinct places of a
Choice(a, size) ==
    {[i \in 1..size |-> a[p[i]]] :
        p \in {q \in [1..size -> 1..Len(a)] :
                  \A i, j \in 1..size : i # j => q[i] # q[j]}}

SampleUsers ==
    /\ pc = "sample_users"
    /\ LET user_ids == KeysOf(user_profiles, insertion_order.user_profiles)
       IN  sampled_user_ids' \in Choice(user_ids, k)
    /\ pc' = "create_user_feature_matrix"
    /\ UNCHANGED <<user_profiles, sampled_user_profiles, user_feature_matrix,
                   user_ids_set, user_features, user_features_df>>
    /\ UNCHANGED <<movieVars, ratingVars, pruneVars, selectionVars,
                   fitVars, loadVars>>
    /\ UNCHANGED insertion_order

\* a mutant of SetPreference: the preference is written to every row
SetPreferenceAllRows(df, user_id, feature_id, preference) ==
    [df EXCEPT !.values =
        [i \in 1..Len(df.index) |->
            [j \in 1..Len(df.columns) |->
                IF df.columns[j] = feature_id
                THEN preference ELSE df.values[i][j]]]]

\* user_feature_matrix.loc[user_id, feature_id] = preference
SetPreference(df, user_id, feature_id, preference) ==
    LocSetCols(df, user_id, <<feature_id>>, preference)

\* the keys of a user's feature_preferences; each key is written to its own
\* cell of the user's row, so that the order of the items does not show
PreferenceKeys(feature_preferences) == SortedSeq(DOMAIN feature_preferences)

\* for feature_id, preference in feature_preferences.items(): ...
RECURSIVE FillPreferences(_, _, _, _)
FillPreferences(df, user_id, feature_preferences, keys) ==
    IF keys = <<>> THEN df
    ELSE FillPreferences(
             SetPreference(df, user_id, Head(keys),
                           feature_preferences[Head(keys)]),
             user_id, feature_preferences, Tail(keys))

\* for user_id, user_data in sampled_user_profiles.items(): ...
RECURSIVE FillUserFeatureMatrix(_, _, _)
FillUserFeatureMatrix(df, profiles, keys) ==
    IF keys = <<>> THEN df
    ELSE LET feature_preferences == profiles[Head(keys)].feature_preferences
         IN  FillUserFeatureMatrix(
                 FillPreferences(df, Head(keys), feature_preferences,
                                 PreferenceKeys(feature_preferences)),
                 profiles, Tail(keys))

\* {user_id: user_profiles[user_id] for user_id in sampled_user_ids}
SampledUserProfiles ==
    [u \in Range(sampled_user_ids) |-> user_profiles[u]]

\* the matrix the cell builds from the sampled profiles and id_to_feature
BuiltUserFeatureMatrix ==
    LET feature_ids == KeysOf(id_to_feature, insertion_order.id_to_feature)
    IN  FillUserFeatureMatrix(NewDataFrame(-1, sampled_user_ids, feature_ids),
                              SampledUserProfiles, sampled_user_ids)

CreateUserFeatureMatrix ==
    /\ pc = "create_user_feature_matrix"
    /\ sampled_user_profiles' = SampledUserProfiles
    /\ user_feature_matrix' = BuiltUserFeatureMatrix
    /\ pc' = "load_ratings"
    /\ UNCHANGED <<user_profiles, sampled_user_ids, user_ids_set,
                   user_features, user_features_df>>
    /\ UNCHANGED <<movieVars, ratingVars, pruneVars, selectionVars,
                   fitVars, loadVars>>
    /\ UNCHANGED insertion_order

\* the head of the ratings cell: user_ids_set = set(sampled_user_ids)
SetUserIds ==
    /\ pc = "load_ratings"
    /\ user_ids_set' = Range(sampled_user_ids)
    /\ pc' = "done"
    /\ UNCHANGED <<user_profiles, sampled_user_ids, sampled_user_profiles,
                   user_feature_matrix, user_features, user_features_df>>
    /\ UNCHANGED <<movieVars, ratingVars, pruneVars, selectionVars,
                   fitVars, loadVars>>
    /\ UNCHANGED insertion_order

InitUsers ==
    /\ pc = "sample_users"
    /\ insertion_order \in {InsertionOrder("ascending", how_features, "descending") :
                               how_features \in Hows}
    /\ user_profiles \in UserProfileInputs
    /\ sampled_user_ids = <<>>
    /\ sampled_user_profiles = <<>>
    /\ user_feature_matrix = EmptyFrame
    /\ user_ids_set = {}
    /\ user_features = <<>>
    /\ user_features_df = EmptyFrame
    /\ raw_movie_features = <<>>
    /\ movie_features = <<>>
    /\ id_to_feature = NamesFrom(0)
    /\ movie_feature_matrix = EmptyFrame
    /\ movie_feature_matrix_no_meta = EmptyFrame
    /\ movie_data = EmptyFrame
    /\ movie_data_filtered = EmptyFrame
    /\ NoRatings /\ NoPruning /\ NoSelection
    /\ NoFits /\ NoLoading

NextUsers == SampleUsers \/ CreateUserFeatureMatrix \/ SetUserIds

SpecUsers == InitUsers /\ [][NextUsers]_vars

Sampled == pc \in {"create_user_feature_matrix", "load_ratings", "done"}
MatrixBuilt == pc \in {"load_ratings", "done"}

\* C3: the user feature matrix has exactly one row per sampled user and one
\* column per feature id; the entry of user u and feature f is the
\* preference u's feature_preferences stores for f, and -1 when it stores
\* none.
UserFeatureMatrixHoldsPreferences ==
    MatrixBuilt =>
        LET df == user_feature_matrix IN
        /\ df.index = sampled_user_ids
        /\ Len(df.columns) = Cardinality(DOMAIN id_to_feature)
        /\ Range(df.columns) = DOMAIN id_to_feature
        /\ \A i \in 1..Len(df.index) : \A j \in 1..Len(df.columns) :
               LET prefs == user_profiles[df.index[i]].feature_preferences
               IN  df.values[i][j] =
                       IF df.columns[j] \in DOMAIN prefs
                       THEN prefs[df.columns[j]] ELSE -1

\* a built matrix with a sampled user who has a preference for one feature
\* and none for another, and a different sampled user with no preference
UserFeatureMatrixWitness ==
    /\ MatrixBuilt
    /\ \E i, i2 \in 1..Len(user_feature_matrix.index) :
           LET prefs  == user_profiles[user_feature_matrix.index[i]].feature_preferences
               prefs2 == user_profiles[user_feature_matrix.index[i2]].feature_preferences
           IN  /\ i # i2
               /\ \E f \in DOMAIN prefs : prefs[f] > 0
               /\ DOMAIN prefs # FeatureIds
               /\ DOMAIN prefs2 = {}

\* C7: sampling selects exactly k pairwise distinct user ids, all keys of
\* user_profiles, and sampled_user_profiles, the rows of the user feature
\* matrix and user_ids_set cover exactly those k users.
SampleIsKDistinctUsers ==
    /\ Sampled =>
           /\ Len(sampled_user_ids) = k
           /\ \A i, j \in 1..Len(sampled_user_ids) :
                  i # j => sampled_user_ids[i] # sampled_user_ids[j]
           /\ Range(sampled_user_ids) \subseteq DOMAIN user_profiles
    /\ MatrixBuilt =>
           /\ DOMAIN sampled_user_profiles = Range(sampled_user_ids)
           /\ Cardinality(DOMAIN sampled_user_profiles) = k
           /\ Len(user_feature_matrix.index) = k
           /\ Range(user_feature_matrix.index) = Range(sampled_user_ids)
    /\ pc = "done" =>
           /\ user_ids_set = Range(sampled_user_ids)
           /\ Cardinality(user_ids_set) = k

\* the whole chain has run and a user of user_profiles was left out
SampleWitness ==
    /\ pc = "done"
    /\ Cardinality(user_ids_set) = k
    /\ \E u \in DOMAIN user_profiles : u \notin user_ids_set

(***************************************************************************)
(* User clustering: the user vectors.                                      *)
(***************************************************************************)
\* [prefs.get(fid, -1) for fid in range(len(prefs))]
UserVector(feature_preferences) ==
    [n \in 1..Cardinality(DOMAIN feature_preferences) |->
        IF (n - 1) \in DOMAIN feature_preferences
        THEN feature_preferences[n - 1] ELSE -1]

MaxLen(rows) ==
    IF rows = <<>> THEN 0
    ELSE CHOOSE n \in {Len(rows[i]) : i \in DOMAIN rows} :
             \A i \in DOMAIN rows : Len(rows[i]) <= n

\* pd.DataFrame(rows, index=index): one column per place of the longest row;
\* a shorter row is padded with NaN (isna marks the padded cells)
FrameOfRows(rows, index) ==
    [index   |-> index,
     columns |-> [j \in 1..MaxLen(rows) |-> j - 1],
     values  |-> [i \in 1..Len(rows) |->
                     [j \in 1..MaxLen(rows) |->
                         IF j <= Len(rows[i]) THEN rows[i][j] ELSE 0]],
     isna    |-> [i \in 1..Len(rows) |->
                     [j \in 1..MaxLen(rows) |-> j > Len(rows[i])]]]

LoadUserProfiles ==
    /\ pc = "load_user_profiles"
    /\ LET user_ids == KeysOf(user_profiles, insertion_order.user_profiles)
           rows == [i \in 1..Len(user_ids) |->
                       UserVector(user_profiles[user_ids[i]].feature_preferences)]
       IN  /\ user_features' = rows
           /\ user_features_df' = FrameOfRows(rows, user_ids)
    /\ pc' = "done"
    /\ UNCHANGED <<user_profiles, sampled_user_ids, sampled_user_profiles,
                   user_feature_matrix, user_ids_set>>
    /\ UNCHANGED <<movieVars, ratingVars, pruneVars, selectionVars,
                   fitVars, loadVars>>
    /\ UNCHANGED insertion_order

InitUserClustering ==
    /\ pc = "load_user_profiles"
    /\ insertion_order \in {InsertionOrder("ascending", "ascending", how_users) :
                               how_users \in Hows}
    /\ user_profiles \in UserProfileInputs
    /\ sampled_user_ids = <<>>
    /\ sampled_user_profiles = <<>>
    /\ user_feature_matrix = EmptyFrame
    /\ user_ids_set = {}
    /\ user_features = <<>>
    /\ user_features_df = EmptyFrame
    /\ raw_movie_features = <<>>
    /\ movie_features = <<>>
    /\ id_to_feature = NamesFrom(0)
    /\ movie_feature_matrix = EmptyFrame
    /\ movie_feature_matrix_no_meta = EmptyFrame
    /\ movie_data = EmptyFrame
    /\ movie_data_filtered = EmptyFrame
    /\ NoRatings /\ NoPruning /\ NoSelection
    /\ NoFits /\ NoLoading

NextUserClustering == LoadUserProfiles

SpecUserClustering == InitUserClustering /\ [][NextUserClustering]_vars

\* C4: every user's vector has one entry for every feature id of the feature
\* mapping, entry f being the user's preference ratio for f, or -1 when the
\* profile has none; all vectors have the same length whatever subset of the
\* features a profile contains.
UserVectorsCoverEveryFeature ==
    pc = "done" =>
        \A i \in 1..Len(user_features) :
            LET prefs == user_profiles[user_features_df.index[i]].feature_preferences
            IN  /\ Len(user_features[i]) = Cardinality(DOMAIN id_to_feature)
                /\ \A f \in DOMAIN id_to_feature :
                       /\ f + 1 \in DOMAIN user_features[i]
                       /\ user_features[i][f + 1] =
                              IF f \in DOMAIN prefs THEN prefs[f] ELSE -1

(***************************************************************************)
(* Classification: binarize the ratings, prepare the two matrices and      *)
(* merge them into the ratings.  ratings_data is the list the loading loop *)
(* leaves; ratings_df is shown by its rows, a row being a record of its    *)
(* columns.  The columns a merge adds are the fields movie_feat and        *)
(* user_feat of a row, each with the labels and the values of the added    *)
(* columns in order.  The labels 'movie_id' and 'movie_feat_<c>' of a      *)
(* prepared matrix are <<"movie_id">> and <<"movie_feat", c>>.             *)
(***************************************************************************)
Stars == MIN_STARS..MAX_STARS

\* a mutant of Label: the comparison is strict
LabelStrict(x) == IF x > HIGH_RATING THEN 1 ELSE 0

\* lambda x: 1 if x >= 4 else 0
Label(x) == IF x >= HIGH_RATING THEN 1 ELSE 0

\* ratings_df['label'] = ratings_df['rating'].apply(...)
BinarizeRatings ==
    /\ pc = "binarize_ratings"
    /\ ratings_df # <<>>
    /\ ratings_df' = [i \in 1..Len(ratings_df) |->
                         [movie_id |-> ratings_df[i].movie_id,
                          user_id  |-> ratings_df[i].user_id,
                          rating   |-> ratings_df[i].rating,
                          date     |-> ratings_df[i].date,
                          label    |-> Label(ratings_df[i].rating)]]
    /\ pc' = "prepare_movie_features"
    /\ UNCHANGED <<ratings_data, movieVars, userVars, pruneVars, selectionVars,
                   fitVars, loadVars>>
    /\ UNCHANGED insertion_order

\* pd.DataFrame([]) has no 'rating' column: the cell stops with a KeyError
BinarizeNoRatings ==
    /\ pc = "binarize_ratings"
    /\ ratings_df = <<>>
    /\ pc' = "error"
    /\ UNCHANGED <<ratingVars, movieVars, userVars, pruneVars, selectionVars,
                   fitVars, loadVars>>
    /\ UNCHANGED insertion_order

\* df.reset_index(inplace=True)
\* df.rename(columns={'index': id_label}, inplace=True)
\* df.rename(columns={col: f'{prefix}_{col}' for col in ...}, inplace=True):
\* the index becomes the first column and the rows are numbered from 0
ResetIndexAndRename(df, id_label, prefix) ==
    [index   |-> [i \in 1..Len(df.index) |-> i - 1],
     columns |-> <<(<<id_label>>)>>
                     \o [j \in 1..Len(df.columns) |-> <<prefix, df.columns[j]>>],
     values  |-> [i \in 1..Len(df.index) |-> <<df.index[i]>> \o df.values[i]]]

\* Prepare Movie Features
PrepareMovieFeatures ==
    /\ pc = "prepare_movie_features"
    /\ movie_feature_matrix' =
           ResetIndexAndRename(movie_feature_matrix, "movie_id", "movie_feat")
    /\ pc' = "prepare_user_features"
    /\ UNCHANGED <<raw_movie_features, movie_features, id_to_feature,
                   movie_data, movie_data_filtered,
                   movie_feature_matrix_no_meta>>
    /\ UNCHANGED <<userVars, ratingVars, pruneVars, selectionVars,
                   fitVars, loadVars>>
    /\ UNCHANGED insertion_order

\* Prepare User Features
PrepareUserFeatures ==
    /\ pc = "prepare_user_features"
    /\ user_feature_matrix' =
           ResetIndexAndRename(user_feature_matrix, "user_id", "user_feat")
    /\ pc' = "merge_dataframes"
    /\ UNCHANGED <<user_profiles, sampled_user_ids, sampled_user_profiles,
                   user_ids_set, user_features, user_features_df>>
    /\ UNCHANGED <<movieVars, ratingVars, pruneVars, selectionVars,
                   fitVars, loadVars>>
    /\ UNCHANGED insertion_order

\* the value of a column that a left merge could not fill
NaN == "NaN"

\* the columns after the first, the key, of row i of frame right, in the
\* order of right
OtherColumns(right, i) ==
    [columns |-> Tail(right.columns), values |-> Tail(right.values[i])]

\* the columns after the key when no row of right has the key
NaNColumns(right) ==
    [columns |-> Tail(right.columns),
     values  |-> [j \in 1..(Len(right.columns) - 1) |-> NaN]]

\* the rows one row of the left frame gives: one for every row of right with
\* the same key, in the order of right, and one of NaN when there is none
MergedRows(row, right, on, into) ==
    LET with(other) == [field \in DOMAIN row \cup {into} |->
                           IF field = into THEN other ELSE row[field]]
        matches == SelectSeq([i \in 1..Len(right.index) |-> i],
                             LAMBDA i : right.values[i][1] = row[on])
    IN  IF matches = <<>>
        THEN <<with(NaNColumns(right))>>
        ELSE [n \in 1..Len(matches) |-> with(OtherColumns(right, matches[n]))]

\* left.merge(right, on=on, how='left'), right having the key as its first
\* column
RECURSIVE MergeLeft(_, _, _, _)
MergeLeft(left, right, on, into) ==
    IF left = <<>> THEN <<>>
    ELSE MergedRows(Head(left), right, on, into)
             \o MergeLeft(Tail(left), right, on, into)

\* Merge DataFrames
MergeDataFrames ==
    /\ pc = "merge_dataframes"
    /\ ratings_df' =
           MergeLeft(MergeLeft(ratings_df, movie_feature_matrix,
                               "movie_id", "movie_feat"),
                     user_feature_matrix, "user_id", "user_feat")
    /\ pc' = "done"
    /\ UNCHANGED <<ratings_data, movieVars, userVars, pruneVars, selectionVars,
                   fitVars, loadVars>>
    /\ UNCHANGED insertion_order

\* the features of movie m and the profile of user u in the state the
\* labelling starts from
LabelledMovieFeatures(m) == SortedSeq({f \in FeatureIds : (m + f) % 2 = 0})
LabelledProfile(u) == ProfileOver(u, {f \in FeatureIds : (u + f) % 2 = 0})

\* record i of ratings_data with the given rating: the loading loop keeps
\* the ratings of the movies of movie_features by the sampled users
LoadedRating(i, rating) ==
    [movie_id |-> ((i + rating) % NumMovies) + 1,
     user_id  |-> (i % k) + 1,
     rating   |-> rating,
     date     |-> i]

\* the state after the loading loop: the two matrices are built and
\* ratings_df holds the loaded ratings
InitLabels ==
    /\ pc = "binarize_ratings"
    /\ insertion_order \in {InsertionOrder(how_movies, how_features, "ascending") :
                               how_movies \in Hows, how_features \in Hows}
    /\ raw_movie_features = <<>>
    /\ movie_features = [m \in Movies |-> LabelledMovieFeatures(m)]
    /\ id_to_feature = NamesFrom(0)
    /\ movie_feature_matrix = BuiltMovieFeatureMatrix
    /\ movie_feature_matrix_no_meta = EmptyFrame
    /\ movie_data = EmptyFrame
    /\ movie_data_filtered = EmptyFrame
    /\ user_profiles = [u \in Users |-> LabelledProfile(u)]
    /\ sampled_user_ids = [i \in 1..k |-> k + 1 - i]
    /\ sampled_user_profiles = SampledUserProfiles
    /\ user_feature_matrix = BuiltUserFeatureMatrix
    /\ user_ids_set = Range(sampled_user_ids)
    /\ user_features = <<>>
    /\ user_features_df = EmptyFrame
    /\ ratings_data \in UNION {{[i \in 1..n |-> LoadedRating(i, stars[i])] :
                                   stars \in [1..n -> Stars]} : n \in 0..MaxRatings}
    /\ ratings_df = ratings_data
    /\ NoPruning /\ NoSelection
    /\ NoFits /\ NoLoading

NextLabels ==
    \/ BinarizeRatings \/ BinarizeNoRatings
    \/ PrepareMovieFeatures \/ PrepareUserFeatures \/ MergeDataFrames

SpecLabels == InitLabels /\ [][NextLabels]_vars

Labelled == pc \in {"prepare_movie_features", "prepare_user_features",
                    "merge_dataframes", "done"}

\* C2: every loaded rating gets exactly one label, 1 exactly when the rating
\* is 4 or 5 and 0 exactly when it is 1, 2 or 3.
LabelIsHighOrLow ==
    Labelled =>
        /\ Len(ratings_df) = Len(ratings_data)
        /\ \A i \in 1..Len(ratings_df) :
               /\ ratings_df[i].rating = ratings_data[i].rating
               /\ ratings_df[i].label \in {0, 1}
               /\ ratings_df[i].label = 1 <=> ratings_df[i].rating \in {4, 5}
               /\ ratings_df[i].label = 0 <=> ratings_df[i].rating \in {1, 2, 3}

\* labelled ratings on both sides of the threshold: a 3 and a 4
LabelWitness ==
    /\ pc = "done"
    /\ \E i, j \in 1..Len(ratings_df) :
           /\ ratings_df[i].rating = 4 /\ ratings_df[i].label = 1
           /\ ratings_df[j].rating = 3 /\ ratings_df[j].label = 0

(***************************************************************************)
(* Classification: remove the low-importance features.                     *)
(***************************************************************************)
\* df.drop(columns=labels): a new frame with the other columns, in order
DropColumns(df, labels) ==
    LET kept == SortedSeq({j \in 1..Len(df.columns) : df.columns[j] \notin labels})
    IN  [index   |-> df.index,
         columns |-> [n \in 1..Len(kept) |-> df.columns[kept[n]]],
         values  |-> [i \in 1..Len(df.index) |->
                         [n \in 1..Len(kept) |-> df.values[i][kept[n]]]]]

\* a mutant of IsLowImportance: an importance equal to the threshold is low
IsLowImportanceInclusive(importance) == importance <= importance_threshold

\* feature_importances['importance'] < importance_threshold
IsLowImportance(importance) == importance < importance_threshold

\* feature_importances[...]['feature'].tolist()
LowImportanceFeatures(feature_names, imps) ==
    LET low == SortedSeq({j \in 1..Len(feature_names) : IsLowImportance(imps[j])})
    IN  [n \in 1..Len(low) |-> feature_names[low[n]]]

RemoveLowImportanceFeatures ==
    /\ pc = "remove_low_importance_features"
    /\ LET low == LowImportanceFeatures(X.columns, importances)
       IN  /\ low_importance_features' = low
           /\ X_reduced' = DropColumns(X, Range(low))
    /\ pc' = "done"
    /\ UNCHANGED <<X, y, importances>>
    /\ UNCHANGED <<movieVars, userVars, ratingVars, selectionVars,
                   fitVars, loadVars>>
    /\ UNCHANGED insertion_order

ImportanceValues ==
    {0, importance_threshold - 1, importance_threshold, importance_threshold + 1}

\* X and y as the merge leaves them, importances as the tuned model gives them
InitPruning ==
    /\ pc = "remove_low_importance_features"
    /\ insertion_order = NoInsertionOrder
    /\ \E vals \in [1..NumXRows -> [1..NumXColumns -> {0, 1}]] :
           X = [index   |-> [i \in 1..NumXRows |-> i - 1],
                columns |-> [j \in 1..NumXColumns |-> j],
                values  |-> vals]
    /\ y \in [1..NumXRows -> {0, 1}]
    /\ importances \in [1..NumXColumns -> ImportanceValues]
    /\ low_importance_features = <<>>
    /\ X_reduced = EmptyFrame
    /\ NoMovieData /\ NoUserData /\ NoRatings /\ NoSelection
    /\ NoFits /\ NoLoading

NextPruning == RemoveLowImportanceFeatures

SpecPruning == InitPruning /\ [][NextPruning]_vars

\* the place of column label c in frame df
ColumnPlace(df, c) == CHOOSE j \in 1..Len(df.columns) : df.columns[j] = c

\* C6: pruning leaves X and y as they are; X_reduced has exactly the columns
\* of X whose importance is at least the threshold (one equal to it is kept),
\* in the order of X, with every row's values unchanged; the removed and the
\* kept columns add up to the columns of X.
PruningKeepsImportantColumns ==
    [][pc = "remove_low_importance_features" =>
        /\ X' = X
        /\ y' = y
        /\ Range(X_reduced'.columns) =
               {X.columns[j] : j \in {n \in 1..Len(X.columns) :
                                          importances[n] >= importance_threshold}}
        /\ \A a, b \in 1..Len(X_reduced'.columns) :
               a < b => ColumnPlace(X, X_reduced'.columns[a])
                            < ColumnPlace(X, X_reduced'.columns[b])
        /\ X_reduced'.index = X.index
        /\ \A i \in 1..Len(X.index) : \A n \in 1..Len(X_reduced'.columns) :
               X_reduced'.values[i][n] =
                   X.values[i][ColumnPlace(X, X_reduced'.columns[n])]
        /\ Len(low_importance_features') + Len(X_reduced'.columns)
               = Len(X.columns)
    ]_vars

\* pruned: a column below the threshold went, a column exactly at the
\* threshold stayed
PruningWitness ==
    /\ pc = "done"
    /\ \E j \in 1..Len(X.columns) :
           /\ importances[j] = importance_threshold
           /\ X.columns[j] \in Range(X_reduced.columns)
    /\ \E j \in 1..Len(X.columns) :
           /\ importances[j] = importance_threshold - 1
           /\ X.columns[j] \notin Range(X_reduced.columns)

(***************************************************************************)
(* Column labels of the clustering notebooks.  The feature columns are     *)
(* labelled by the feature ids 0, 1, ...; the columns the notebooks add    *)
(* are labelled by numbers below 0.                                        *)
(***************************************************************************)
\* the column label "cluster"; the feature columns are labelled 0, 1, ...
CLUSTER == -1
\* the column labels 'title', 'features', 'cluster_pca', 'dbscan_cluster' and
\* 'dbscan_cluster_pca' of movie_feature_matrix
TITLE == -2
FEATURES == -3
CLUSTER_PCA == -4
DBSCAN_CLUSTER == -5
DBSCAN_CLUSTER_PCA == -6

\* the runtime features dropped by the notebook, [435, 436, 437, 438] of the
\* 450 features: here the last feature id
RuntimeFeatureIds == {NumFeatures - 1}

\* df.drop(columns=labels) on a frame that may hold NaN
DropUserColumns(df, labels) ==
    LET kept == SortedSeq({j \in 1..Len(df.columns) : df.columns[j] \notin labels})
        d == DropColumns(df, labels)
    IN  [index   |-> d.index,
         columns |-> d.columns,
         values  |-> d.values,
         isna    |-> [i \in 1..Len(df.index) |->
                         [n \in 1..Len(kept) |-> df.isna[i][kept[n]]]]]

\* df[label] = column: a new column is appended after the existing ones
AssignColumn(df, label, column) ==
    IF \E j \in 1..Len(df.columns) : df.columns[j] = label
    THEN LET c == CHOOSE j \in 1..Len(df.columns) : df.columns[j] = label
         IN  [df EXCEPT !.values = [i \in 1..Len(df.index) |->
                                       [df.values[i] EXCEPT ![c] = column[i]]],
                        !.isna = [i \in 1..Len(df.index) |->
                                     [df.isna[i] EXCEPT ![c] = FALSE]]]
    ELSE [index   |-> df.index,
          columns |-> Append(df.columns, label),
          values  |-> [i \in 1..Len(df.index) |-> Append(df.values[i], column[i])],
          isna    |-> [i \in 1..Len(df.index) |-> Append(df.isna[i], FALSE)]]

\* pca.fit_transform(df): the components are built from every column of df
Components(df, n_components) ==
    [n_components |-> n_components, built_from |-> df.columns]

\* df[label] = column on a frame without NaN
AssignMovieColumn(df, label, column) ==
    IF \E j \in 1..Len(df.columns) : df.columns[j] = label
    THEN LET c == CHOOSE j \in 1..Len(df.columns) : df.columns[j] = label
         IN  [df EXCEPT !.values = [i \in 1..Len(df.index) |->
                                       [df.values[i] EXCEPT ![c] = column[i]]]]
    ELSE [index   |-> df.index,
          columns |-> Append(df.columns, label),
          values  |-> [i \in 1..Len(df.index) |-> Append(df.values[i], column[i])]]

(***************************************************************************)
(* Clustering: K-Means model selection.  The notebooks select k four       *)
(* times with the same code: movies on the raw features and on 50          *)
(* principal components, users on the raw features and on 300 principal    *)
(* components.  KMeans, DBSCAN and silhouette_score are library calls: a   *)
(* score is any of the levels 0..MaxScore, the labels of a fit are any     *)
(* labelling that gives equal samples the same label.  selection names     *)
(* the selection the notebook is at;                                       *)
(* silhouette_scores and best_k are those of that selection.  The frames   *)
(* that are only plotted are not part of the state.                        *)
(***************************************************************************)
Selections == {"movies_raw", "movies_pca", "users_raw", "users_pca"}

Scores == 0..MaxScore

\* k_range = range(2, 21)
k_range == [i \in 1..(K_STOP - K_START) |-> K_START + i - 1]

\* a mutant of ArgMaxFrom: a later score equal to the best replaces it
RECURSIVE ArgMaxLastFrom(_, _, _)
ArgMaxLastFrom(a, i, best) ==
    IF i > Len(a) THEN best - 1
    ELSE ArgMaxLastFrom(a, i + 1, IF a[i] >= a[best] THEN i ELSE best)

\* np.argmax(a): the scan keeps the first place of the greatest value and
\* returns it counted from 0
RECURSIVE ArgMaxFrom(_, _, _)
ArgMaxFrom(a, i, best) ==
    IF i > Len(a) THEN best - 1
    ELSE ArgMaxFrom(a, i + 1, IF a[i] > a[best] THEN i ELSE best)

ArgMax(a) == ArgMaxFrom(a, 2, 1)

\* the movies and the users that are clustered: silhouette_score needs more
\* samples than clusters for every k of k_range
Clustered == 1..K_STOP

\* the distinct samples of data
Samples(data) == {data.values[i] : i \in 1..Len(data.index)}

\* the clusters a K-Means fit with n_clusters clusters finds in data: one
\* per distinct sample when there are fewer of them than n_clusters
ClustersFound(data, n_clusters) ==
    IF Cardinality(Samples(data)) < n_clusters
    THEN Cardinality(Samples(data)) ELSE n_clusters

\* KMeans(n_clusters).fit_predict(data) and silhouette_score(data, labels)
\* return: KMeans raises a ValueError when there are fewer samples than
\* clusters, silhouette_score when the number of labels is not in
\* 2..n_samples - 1
ScoreDefined(data, n_clusters) ==
    /\ Len(data.index) >= n_clusters
    /\ ClustersFound(data, n_clusters) >= 2
    /\ ClustersFound(data, n_clusters) <= Len(data.index) - 1

\* compute_clustering_metrics(data, k_range) returns
MetricsDefined(data) ==
    \A n_clusters \in Range(k_range) : ScoreDefined(data, n_clusters)

\* the number of KMeans fits compute_clustering_metrics has completed when
\* it raises: those of the k before the first k that raises, and that of
\* this k when it is silhouette_score that raises
CompletedFits(data) ==
    LET raising == CHOOSE i \in 1..Len(k_range) :
                       /\ ~ScoreDefined(data, k_range[i])
                       /\ \A j \in 1..(i - 1) : ScoreDefined(data, k_range[j])
    IN  IF Len(data.index) >= k_range[raising] THEN raising ELSE raising - 1

\* the loaded tables: the IMDb id of a Netflix movie, the title of an IMDb id
netflix_to_imdb_filtered == [m \in {n \in Clustered : n % 3 # 0} |-> 100 + m]
imdb_titles ==
    [t \in {100 + n : n \in {m \in Clustered : m % 3 = 1}} |-> <<"Title", t>>]

\* movie_titles[netflix_id] = imdb_titles[imdb_id], or
\* f"Unknown Title ({netflix_id})"
MovieTitles(movie_ids) ==
    [netflix_id \in Range(movie_ids) |->
        IF /\ netflix_id \in DOMAIN netflix_to_imdb_filtered
           /\ netflix_to_imdb_filtered[netflix_id] \in DOMAIN imdb_titles
        THEN imdb_titles[netflix_to_imdb_filtered[netflix_id]]
        ELSE <<"Unknown Title", netflix_id>>]

\* df.index.map(mapping): the value of every index label
IndexMap(df, mapping) == [i \in 1..Len(df.index) |-> mapping[df.index[i]]]

\* movie_feature_matrix['title'] = movie_feature_matrix.index.map(movie_titles)
AddTitles ==
    /\ pc = "add_titles"
    /\ LET movie_ids == KeysOf(movie_features, insertion_order.movie_features)
       IN  movie_feature_matrix' =
               AssignMovieColumn(movie_feature_matrix, TITLE,
                                 IndexMap(movie_feature_matrix,
                                          MovieTitles(movie_ids)))
    /\ pc' = "add_feature_names"
    /\ UNCHANGED <<raw_movie_features, movie_features, id_to_feature,
                   movie_data, movie_data_filtered,
                   movie_feature_matrix_no_meta>>
    /\ UNCHANGED <<userVars, ratingVars, pruneVars, selectionVars,
                   fitVars, loadVars>>
    /\ UNCHANGED insertion_order

\* ', '.join(names)
RECURSIVE Join(_)
Join(names) ==
    IF names = <<>> THEN <<>>
    ELSE IF Len(names) = 1 THEN Head(names)
    ELSE Head(names) \o <<",", " ">> \o Join(Tail(names))

\* get_feature_names(feature_ids)
get_feature_names(feature_ids) ==
    [n \in 1..Len(feature_ids) |-> id_to_feature[feature_ids[n]]]

\* movie_feature_matrix['features'] = movie_feature_matrix.index.map(
\*     lambda x: ', '.join(get_feature_names(movie_features.get(x, []))))
AddFeatureNames ==
    /\ pc = "add_feature_names"
    /\ movie_feature_matrix' =
           AssignMovieColumn(
               movie_feature_matrix, FEATURES,
               [i \in 1..Len(movie_feature_matrix.index) |->
                   LET x == movie_feature_matrix.index[i]
                   IN  Join(get_feature_names(
                           IF x \in DOMAIN movie_features
                           THEN movie_features[x] ELSE <<>>))])
    /\ pc' = "compute_clustering_metrics"
    /\ UNCHANGED <<raw_movie_features, movie_features, id_to_feature,
                   movie_data, movie_data_filtered,
                   movie_feature_matrix_no_meta>>
    /\ UNCHANGED <<userVars, ratingVars, pruneVars, selectionVars,
                   fitVars, loadVars>>
    /\ UNCHANGED insertion_order

\* movie_feature_matrix_no_meta = movie_feature_matrix.drop(['title', 'features'], axis=1)
\* compute_clustering_metrics(data, k_range): one silhouette score per k
\* for the users on principal components the cell begins with
\* user_features_pca = pca.fit_transform(user_features_df)
ComputeClusteringMetrics ==
    /\ pc = "compute_clustering_metrics"
    /\ LET no_meta == IF selection = "movies_raw"
                      THEN DropColumns(movie_feature_matrix, {TITLE, FEATURES})
                      ELSE movie_feature_matrix_no_meta
           data == IF selection \in {"movies_raw", "movies_pca"}
                   THEN no_meta ELSE user_features_df
       IN  /\ MetricsDefined(data)
           /\ movie_feature_matrix_no_meta' = no_meta
    /\ user_features_pca' =
           IF selection = "users_pca"
           THEN Components(user_features_df, 300) ELSE user_features_pca
    /\ silhouette_scores' \in [1..Len(k_range) -> Scores]
    /\ pc' = "choose_best_k"
    /\ UNCHANGED <<selection, best_k, kmeans_n_clusters>>
    /\ UNCHANGED <<raw_movie_features, movie_features, id_to_feature,
                   movie_feature_matrix, movie_data, movie_data_filtered>>
    /\ UNCHANGED <<userVars, ratingVars, pruneVars, fits, loadVars>>
    /\ UNCHANGED insertion_order

Digits == <<"0", "1", "2", "3", "4", "5", "6", "7", "8", "9">>

\* str(n), shown by its characters
RECURSIVE Str(_)
Str(n) ==
    IF n < 0 THEN <<"-">> \o Str(0 - n)
    ELSE IF n < 10 THEN <<Digits[n + 1]>>
    ELSE Str(n \div 10) \o <<Digits[(n % 10) + 1]>>

\* labels.astype(str)
AsTypeStr(labels) == [i \in 1..Len(labels) |-> Str(labels[i])]

\* kmeans.fit_predict(data): a cluster number below n_clusters for every
\* sample, the same for equal samples, ClustersFound of them in use
KMeansLabels(data, n_clusters) ==
    LET samples == Samples(data)
        found   == ClustersFound(data, n_clusters)
    IN  {[i \in 1..Len(data.index) |-> of[data.values[i]]] :
            of \in {h \in [samples -> 0..(n_clusters - 1)] :
                       Cardinality({h[r] : r \in samples}) = found}}

\* dbscan.fit_predict(data): for every sample a cluster number, or -1 for
\* noise, the same for equal samples; the clusters are numbered from 0
DbscanLabels(data) ==
    LET samples == Samples(data)
    IN  {[i \in 1..Len(data.index) |-> of[data.values[i]]] :
            of \in {h \in [samples -> -1..(Cardinality(samples) - 1)] :
                       \A r \in samples :
                           h[r] > 0 => \E q \in samples : h[q] = h[r] - 1}}

\* best_k = k_range[np.argmax(silhouette_scores)]
\* kmeans = KMeans(n_clusters=best_k, random_state=42)
\* labels = kmeans.fit_predict(...); the labels are written to the column
\* 'cluster' or 'cluster_pca' of movie_feature_matrix, to the column
\* 'cluster' of user_features_df, or to a frame that is only plotted
ClusterWithBestK ==
    /\ pc = "choose_best_k"
    /\ LET chosen == k_range[ArgMax(silhouette_scores) + 1]
       IN  /\ best_k' = chosen
           /\ kmeans_n_clusters' = chosen
           /\ CASE selection = "movies_raw" ->
                      /\ \E labels \in KMeansLabels(movie_feature_matrix_no_meta, chosen) :
                             movie_feature_matrix' =
                                 AssignMovieColumn(movie_feature_matrix, CLUSTER,
                                                   AsTypeStr(labels))
                      /\ selection' = "movies_pca"
                      /\ pc' = "compute_clustering_metrics"
                      /\ UNCHANGED user_features_df
                [] selection = "movies_pca" ->
                      /\ \E labels \in KMeansLabels(movie_feature_matrix_no_meta, chosen) :
                             movie_feature_matrix' =
                                 AssignMovieColumn(movie_feature_matrix, CLUSTER_PCA,
                                                   AsTypeStr(labels))
                      /\ pc' = "dbscan"
                      /\ UNCHANGED <<selection, user_features_df>>
                [] selection = "users_raw" ->
                      /\ \E labels \in KMeansLabels(user_features_df, chosen) :
                             user_features_df' =
                                 AssignColumn(user_features_df, CLUSTER, labels)
                      /\ selection' = "users_pca"
                      /\ pc' = "compute_clustering_metrics"
                      /\ UNCHANGED movie_feature_matrix
                [] selection = "users_pca" ->
                      /\ pc' = "done"
                      /\ UNCHANGED <<selection, movie_feature_matrix,
                                     user_features_df>>
    /\ UNCHANGED silhouette_scores
    /\ UNCHANGED <<raw_movie_features, movie_features, id_to_feature,
                   movie_feature_matrix_no_meta, movie_data,
                   movie_data_filtered>>
    /\ UNCHANGED <<user_profiles, sampled_user_ids, sampled_user_profiles,
                   user_feature_matrix, user_ids_set, user_features>>
    /\ UNCHANGED <<ratingVars, pruneVars, fitVars, loadVars>>
    /\ UNCHANGED insertion_order

\* dbscan_labels = dbscan.fit_predict(movie_feature_matrix_no_meta)
\* movie_feature_matrix['dbscan_cluster'] = dbscan_labels.astype(str)
DbscanMovies ==
    /\ pc = "dbscan"
    /\ \E dbscan_labels \in DbscanLabels(movie_feature_matrix_no_meta) :
           movie_feature_matrix' =
               AssignMovieColumn(movie_feature_matrix, DBSCAN_CLUSTER,
                                 AsTypeStr(dbscan_labels))
    /\ pc' = "dbscan_pca"
    /\ UNCHANGED <<raw_movie_features, movie_features, id_to_feature,
                   movie_data, movie_data_filtered,
                   movie_feature_matrix_no_meta>>
    /\ UNCHANGED <<userVars, ratingVars, pruneVars, selectionVars,
                   fitVars, loadVars>>
    /\ UNCHANGED insertion_order

\* dbscan_labels_pca = dbscan_pca.fit_predict(movie_features_pca)
\* movie_feature_matrix['dbscan_cluster_pca'] = dbscan_labels_pca.astype(str)
DbscanMoviesPca ==
    /\ pc = "dbscan_pca"
    /\ \E dbscan_labels_pca \in DbscanLabels(movie_feature_matrix_no_meta) :
           movie_feature_matrix' =
               AssignMovieColumn(movie_feature_matrix, DBSCAN_CLUSTER_PCA,
                                 AsTypeStr(dbscan_labels_pca))
    /\ pc' = "done"
    /\ UNCHANGED <<raw_movie_features, movie_features, id_to_feature,
                   movie_data, movie_data_filtered,
                   movie_feature_matrix_no_meta>>
    /\ UNCHANGED <<userVars, ratingVars, pruneVars, selectionVars,
                   fitVars, loadVars>>
    /\ UNCHANGED insertion_order

\* the movie clustering notebook after Create Movie Feature Matrix
InitMovieSelection ==
    /\ pc = "add_titles"
    /\ selection = "movies_raw"
    /\ \E how_movies \in Hows :
           insertion_order = [movie_features |-> Ordered(how_movies, Clustered),
                              id_to_feature  |-> SortedSeq(FeatureIds),
                              user_profiles  |-> <<>>]
    /\ raw_movie_features = <<>>
    /\ movie_features = [m \in Clustered |-> LabelledMovieFeatures(m)]
    /\ id_to_feature = NamesFrom(0)
    /\ movie_feature_matrix = BuiltMovieFeatureMatrix
    /\ movie_feature_matrix_no_meta = EmptyFrame
    /\ movie_data = EmptyFrame
    /\ movie_data_filtered = EmptyFrame
    /\ NoUserData

\* the profile of a clustered user: a preference for every feature, the
\* same for every third user
ClusteredProfile(u) == ProfileOver(((u - 1) % 3) + 1, FeatureIds)

\* the user clustering notebook before its first model selection: every
\* profile has a preference for every feature and the runtime features are
\* dropped
InitUserSelection ==
    /\ pc = "compute_clustering_metrics"
    /\ selection = "users_raw"
    /\ \E how_users \in Hows :
           insertion_order = [movie_features |-> <<>>,
                              id_to_feature  |-> <<>>,
                              user_profiles  |-> Ordered(how_users, Clustered)]
    /\ user_profiles = [u \in Clustered |-> ClusteredProfile(u)]
    /\ sampled_user_ids = <<>>
    /\ sampled_user_profiles = <<>>
    /\ user_feature_matrix = EmptyFrame
    /\ user_ids_set = {}
    /\ LET user_ids == KeysOf(user_profiles, insertion_order.user_profiles)
           rows == [i \in 1..Len(user_ids) |->
                       UserVector(user_profiles[user_ids[i]].feature_preferences)]
       IN  /\ user_features = rows
           /\ user_features_df =
                  DropUserColumns(FrameOfRows(rows, user_ids), RuntimeFeatureIds)
    /\ NoMovieData

InitSelection ==
    /\ InitMovieSelection \/ InitUserSelection
    /\ silhouette_scores = <<>>
    /\ best_k = 0
    /\ kmeans_n_clusters = 0
    /\ NoRatings /\ NoPruning
    /\ NoFits /\ NoLoading

NextSelection ==
    \/ AddTitles \/ AddFeatureNames
    \/ ComputeClusteringMetrics \/ ClusterWithBestK
    \/ DbscanMovies \/ DbscanMoviesPca

SpecSelection == InitSelection /\ [][NextSelection]_vars

\* the silhouette score computed for k clusters
ScoreOf(kk) == silhouette_scores[kk - K_START + 1]

\* the k of the selection the notebook was at last is chosen
Chosen == best_k # 0 /\ pc # "choose_best_k"

\* C5: in each of the four selections there is one score per k of k_range,
\* in the order of k_range; the chosen k is a k of k_range whose score is the
\* greatest, the smallest such k when several tie; and the final K-Means is
\* fit with exactly that k.
BestKHasGreatestSilhouette ==
    /\ pc = "choose_best_k" \/ Chosen =>
           Len(silhouette_scores) = K_STOP - K_START
    /\ Chosen =>
           /\ selection \in Selections
           /\ best_k \in K_START..(K_STOP - 1)
           /\ \A kk \in K_START..(K_STOP - 1) : ScoreOf(kk) <= ScoreOf(best_k)
           /\ \A kk \in K_START..(best_k - 1) : ScoreOf(kk) < ScoreOf(best_k)
           /\ kmeans_n_clusters = best_k

\* a selection in which two k tie for the greatest score, the chosen k is
\* neither the first nor the last of k_range, and a smaller k scored less
BestKWitness ==
    /\ Chosen
    /\ best_k > K_START
    /\ \E kk \in (best_k + 1)..(K_STOP - 1) : ScoreOf(kk) = ScoreOf(best_k)
    /\ ScoreOf(K_START) < ScoreOf(best_k)

(***************************************************************************)
(* Heatmaps: movie feature correlations without Genre, Decade or Runtime.  *)
(***************************************************************************)
\* the keys of feature_presence = {fid: 1 for fid in feature_ids}: the ids
\* of the list in the order they are first listed, each once
RECURSIVE FeaturePresence(_)
FeaturePresence(feature_ids) ==
    IF feature_ids = <<>> THEN <<>>
    ELSE LET first == FeaturePresence(SubSeq(feature_ids, 1, Len(feature_ids) - 1))
             fid   == feature_ids[Len(feature_ids)]
         IN  IF fid \in Range(first) THEN first ELSE Append(first, fid)

\* the columns of pd.DataFrame.from_records(data): the keys of the records
\* in the order they are first seen
RECURSIVE FirstSeenColumns(_, _, _)
FirstSeenColumns(items, keys, cols) ==
    IF keys = <<>> THEN cols
    ELSE FirstSeenColumns(items, Tail(keys),
             cols \o SelectSeq(FeaturePresence(items[Head(keys)]),
                               LAMBDA fid : fid \notin Range(cols)))

\* movie_data = pd.DataFrame.from_records(data, index=movie_ids)
\*                 .fillna(0).astype(int), data[i] = {fid: 1 for fid in ...}
BuildMovieData ==
    /\ pc = "build_movie_data"
    /\ LET movie_ids == KeysOf(movie_features, insertion_order.movie_features)
           columns   == FirstSeenColumns(movie_features, movie_ids, <<>>)
       IN  movie_data' =
               [index   |-> movie_ids,
                columns |-> columns,
                values  |-> [i \in 1..Len(movie_ids) |->
                                [j \in 1..Len(columns) |->
                                    IF columns[j] \in Range(movie_features[movie_ids[i]])
                                    THEN 1 ELSE 0]]]
    /\ pc' = "exclude_features"
    /\ UNCHANGED <<raw_movie_features, movie_features, id_to_feature,
                   movie_feature_matrix, movie_data_filtered,
                   movie_feature_matrix_no_meta>>
    /\ UNCHANGED <<userVars, ratingVars, pruneVars, selectionVars,
                   fitVars, loadVars>>
    /\ UNCHANGED insertion_order

\* str.startswith(prefix)
StartsWith(name, prefix) ==
    /\ Len(name) >= Len(prefix)
    /\ SubSeq(name, 1, Len(prefix)) = prefix

\* a mutant of ExcludedPrefixes: 'Decade' is missing
ExcludedPrefixesNoDecade ==
    {<<"R","u","n","t","i","m","e">>, <<"G","e","n","r","e">>}

\* ('Runtime', 'Genre', 'Decade')
ExcludedPrefixes ==
    {<<"R","u","n","t","i","m","e">>, <<"G","e","n","r","e">>,
     <<"D","e","c","a","d","e">>}

\* excluded_feature_ids, appended in the order of id_to_feature.items()
ExcludedFeatureIds(names, inserted) ==
    SelectSeq(KeysOf(names, inserted),
              LAMBDA feature_id :
                  \E prefix \in ExcludedPrefixes :
                      StartsWith(names[feature_id], prefix))

\* movie_data.drop(columns=excluded_feature_ids, errors='ignore')
ExcludeFeatures ==
    /\ pc = "exclude_features"
    /\ movie_data_filtered' =
           DropColumns(movie_data,
                       Range(ExcludedFeatureIds(id_to_feature,
                                                insertion_order.id_to_feature)))
    /\ pc' = "done"
    /\ UNCHANGED <<raw_movie_features, movie_features, id_to_feature,
                   movie_feature_matrix, movie_data,
                   movie_feature_matrix_no_meta>>
    /\ UNCHANGED <<userVars, ratingVars, pruneVars, selectionVars,
                   fitVars, loadVars>>
    /\ UNCHANGED insertion_order

InitHeatmaps ==
    /\ pc = "build_movie_data"
    /\ insertion_order \in {InsertionOrder(how_movies, "ascending", "ascending") :
                               how_movies \in {"ascending", "rotated"}}
    /\ raw_movie_features = <<>>
    /\ movie_features \in MovieFeatureInputs({"ascending", "repeated"})
    /\ id_to_feature \in {NamesFrom(offset) : offset \in 0..(Len(NameTable) - 1)}
    /\ movie_feature_matrix = EmptyFrame
    /\ movie_feature_matrix_no_meta = EmptyFrame
    /\ movie_data = EmptyFrame
    /\ movie_data_filtered = EmptyFrame
    /\ NoUserData /\ NoRatings /\ NoPruning /\ NoSelection
    /\ NoFits /\ NoLoading

NextHeatmaps == BuildMovieData \/ ExcludeFeatures

SpecHeatmaps == InitHeatmaps /\ [][NextHeatmaps]_vars

\* the names of the table that start with 'Runtime', 'Genre' or 'Decade'
RuntimeGenreDecadeNames == {NameGenreWar, NameRuntime90, NameDecade80}

\* C8: excluding the features leaves movie_data as it is; movie_data_filtered
\* has no column whose feature name starts with 'Runtime', 'Genre' or
\* 'Decade', and every other column of movie_data is in it with the values
\* it has in movie_data.
FilteredHasNoRuntimeGenreDecade ==
    [][pc = "exclude_features" =>
        /\ movie_data' = movie_data
        /\ movie_data_filtered'.index = movie_data.index
        /\ \A n \in 1..Len(movie_data_filtered'.columns) :
               id_to_feature[movie_data_filtered'.columns[n]]
                   \notin RuntimeGenreDecadeNames
        /\ \A j \in 1..Len(movie_data.columns) :
               id_to_feature[movie_data.columns[j]] \notin RuntimeGenreDecadeNames
               => \E n \in 1..Len(movie_data_filtered'.columns) :
                      /\ movie_data_filtered'.columns[n] = movie_data.columns[j]
                      /\ \A m \in 1..Len(movie_data_filtered'.columns) :
                             movie_data_filtered'.columns[m] = movie_data.columns[j]
                             => m = n
                      /\ \A i \in 1..Len(movie_data.index) :
                             movie_data_filtered'.values[i][n]
                                 = movie_data.values[i][j]
    ]_vars

\* filtered: a Decade column went, a column of a name that only shares a
\* few letters with an excluded prefix stayed, with a 1 in it
FilteredWitness ==
    /\ pc = "done"
    /\ \E j \in 1..Len(movie_data.columns) :
           /\ id_to_feature[movie_data.columns[j]] = NameDecade80
           /\ movie_data.columns[j] \notin Range(movie_data_filtered.columns)
    /\ \E n \in 1..Len(movie_data_filtered.columns) :
           /\ id_to_feature[movie_data_filtered.columns[n]]
                  \in {NameGeneKelly, NameRune}
           /\ \E i \in 1..Len(movie_data_filtered.index) :
                  movie_data_filtered.values[i][n] = 1

(***************************************************************************)
(* User clustering: the matrices given to PCA, K-Means and DBSCAN.  The    *)
(* estimators are library calls; fits lists, in the order of the calls,    *)
(* the estimator and the columns its input matrix is built from.  The      *)
(* scores of the raw preferences are kept in silhouette_scores; those of   *)
(* the 300 components are in the dict metrics, local to the cell, so the   *)
(* best_k of that cell is any k of k_range.  The labels of the model name  *)
(* the columns whatever their type: columns.astype(str) turns the label 0  *)
(* into '0', the columns stay.                                             *)
(***************************************************************************)
HasNaN(df) ==
    \E i \in 1..Len(df.index) : \E j \in 1..Len(df.columns) : df.isna[i][j]

\* one call of fit_transform or fit_predict: the estimator, the matrix it is
\* given and the columns of user_features_df that matrix is built from
Fit(estimator, matrix, built_from) ==
    [estimator |-> estimator, matrix |-> matrix, built_from |-> built_from]

\* compute_clustering_metrics(data, k_range): one KMeans fit per k
MetricsFits(matrix, built_from) ==
    [i \in 1..Len(k_range) |-> Fit("KMeans", matrix, built_from)]

profileVars == <<user_profiles, sampled_user_ids, sampled_user_profiles,
                 user_feature_matrix, user_ids_set, user_features>>

\* user_features_df = user_features_df.drop(columns=[435, 436, 437, 438])
DropRuntimeFeatures ==
    /\ pc = "drop_runtime_features"
    /\ RuntimeFeatureIds \subseteq Range(user_features_df.columns)
    /\ user_features_df' = DropUserColumns(user_features_df, RuntimeFeatureIds)
    /\ pc' = "pca_raw"
    /\ UNCHANGED <<profileVars, fitVars, selectionVars>>
    /\ UNCHANGED <<movieVars, ratingVars, pruneVars, loadVars>>
    /\ UNCHANGED insertion_order

\* drop raises a KeyError when a label is not a column
DropRuntimeFeaturesKeyError ==
    /\ pc = "drop_runtime_features"
    /\ ~(RuntimeFeatureIds \subseteq Range(user_features_df.columns))
    /\ pc' = "error"
    /\ UNCHANGED <<userVars, fitVars, selectionVars>>
    /\ UNCHANGED <<movieVars, ratingVars, pruneVars, loadVars>>
    /\ UNCHANGED insertion_order

\* pca = PCA(n_components=2); user_features_2d = pca.fit_transform(user_features_df)
PcaRaw ==
    /\ pc = "pca_raw"
    /\ ~HasNaN(user_features_df)
    /\ fits' = Append(fits, Fit("PCA", "user_features_df", user_features_df.columns))
    /\ pc' = "compute_clustering_metrics"
    /\ UNCHANGED <<userVars, user_features_pca, selectionVars>>
    /\ UNCHANGED <<movieVars, ratingVars, pruneVars, loadVars>>
    /\ UNCHANGED insertion_order

\* PCA raises a ValueError on an input that contains NaN
PcaRawValueError ==
    /\ pc = "pca_raw"
    /\ HasNaN(user_features_df)
    /\ pc' = "error"
    /\ UNCHANGED <<userVars, fitVars, selectionVars>>
    /\ UNCHANGED <<movieVars, ratingVars, pruneVars, loadVars>>
    /\ UNCHANGED insertion_order

\* silhouette_scores, ch_scores = compute_clustering_metrics(user_features_df, k_range)
MetricsRaw ==
    /\ pc = "compute_clustering_metrics"
    /\ MetricsDefined(user_features_df)
    /\ silhouette_scores' \in [1..Len(k_range) -> Scores]
    /\ fits' = fits \o MetricsFits("user_features_df", user_features_df.columns)
    /\ pc' = "cluster_best_k"
    /\ UNCHANGED <<userVars, user_features_pca, selection, best_k,
                   kmeans_n_clusters>>
    /\ UNCHANGED <<movieVars, ratingVars, pruneVars, loadVars>>
    /\ UNCHANGED insertion_order

\* KMeans or silhouette_score raises a ValueError: too few samples for a k
\* of k_range, or too few distinct ones; the fits of the k before are done
MetricsRawValueError ==
    /\ pc = "compute_clustering_metrics"
    /\ ~MetricsDefined(user_features_df)
    /\ fits' = fits \o
           SubSeq(MetricsFits("user_features_df", user_features_df.columns),
                  1, CompletedFits(user_features_df))
    /\ pc' = "error"
    /\ UNCHANGED <<userVars, user_features_pca, selectionVars>>
    /\ UNCHANGED <<movieVars, ratingVars, pruneVars, loadVars>>
    /\ UNCHANGED insertion_order

\* best_k = k_range[np.argmax(silhouette_scores)]
\* labels = kmeans.fit_predict(user_features_df)
\* user_features_df["cluster"] = labels
\* reduced_features = pca.fit_transform(user_features_df.drop("cluster", axis=1))
ClusterBestK ==
    /\ pc = "cluster_best_k"
    /\ LET chosen == k_range[ArgMax(silhouette_scores) + 1]
       IN
       \E labels \in KMeansLabels(user_features_df, chosen) :
           LET with_cluster == AssignColumn(user_features_df, CLUSTER, labels)
           IN  /\ best_k' = chosen
               /\ kmeans_n_clusters' = chosen
               /\ user_features_df' = with_cluster
               /\ fits' = fits \o
                      <<Fit("KMeans", "user_features_df", user_features_df.columns),
                        Fit("PCA", "user_features_df",
                            DropUserColumns(with_cluster, {CLUSTER}).columns)>>
    /\ pc' = "pca_300"
    /\ UNCHANGED <<profileVars, user_features_pca, selection, silhouette_scores>>
    /\ UNCHANGED <<movieVars, ratingVars, pruneVars, loadVars>>
    /\ UNCHANGED insertion_order

\* pca = PCA(n_components=300)
\* user_features_df.columns = user_features_df.columns.astype(str)
\* user_features_pca = pca.fit_transform(user_features_df)
\* metrics = compute_clustering_metrics(user_features_pca, k_range)
\* kmeans = KMeans(n_clusters=best_k, ...); labels = kmeans.fit_predict(user_features_pca)
ClusterPca300 ==
    /\ pc = "pca_300"
    /\ LET components == Components(user_features_df, 300)
       IN  /\ user_features_pca' = components
           /\ fits' = fits
                  \o <<Fit("PCA", "user_features_df", user_features_df.columns)>>
                  \o MetricsFits("user_features_pca", components.built_from)
                  \o <<Fit("KMeans", "user_features_pca", components.built_from)>>
    /\ \E chosen \in Range(k_range) :
           /\ best_k' = chosen
           /\ kmeans_n_clusters' = chosen
    /\ pc' = "dbscan_300"
    /\ UNCHANGED <<userVars, selection, silhouette_scores>>
    /\ UNCHANGED <<movieVars, ratingVars, pruneVars, loadVars>>
    /\ UNCHANGED insertion_order

\* pca = PCA(n_components=dim)
\* user_features_pca = pca.fit_transform(user_features_df.copy())
\* visualize_dbscan_clusters(eps, 5, dim): dbscan.fit_predict(user_features_pca)
DbscanFits(components) ==
    <<Fit("PCA", "user_features_df", user_features_df.columns),
      Fit("DBSCAN", "user_features_pca", components.built_from)>>

\* Cluster using PCA 300D
Dbscan300 ==
    /\ pc = "dbscan_300"
    /\ user_features_pca' = Components(user_features_df, 300)
    /\ fits' = fits \o DbscanFits(Components(user_features_df, 300))
    /\ pc' = "dbscan_2"
    /\ UNCHANGED <<userVars, selectionVars>>
    /\ UNCHANGED <<movieVars, ratingVars, pruneVars, loadVars>>
    /\ UNCHANGED insertion_order

\* Cluster using PCA 2D
Dbscan2 ==
    /\ pc = "dbscan_2"
    /\ user_features_pca' = Components(user_features_df, 2)
    /\ fits' = fits \o DbscanFits(Components(user_features_df, 2))
    /\ pc' = "done"
    /\ UNCHANGED <<userVars, selectionVars>>
    /\ UNCHANGED <<movieVars, ratingVars, pruneVars, loadVars>>
    /\ UNCHANGED insertion_order

\* the state the Load User Profiles cell leaves: the profiles of Users, with
\* preferences for any features, or those of the users that are clustered
InitUserFits ==
    /\ pc = "drop_runtime_features"
    /\ \E how_users \in Hows :
           \/ /\ insertion_order = InsertionOrder("ascending", "ascending", how_users)
              /\ user_profiles \in UserProfileInputs
           \/ /\ insertion_order = [movie_features |-> Ordered("ascending", Movies),
                                     id_to_feature  |-> Ordered("ascending", FeatureIds),
                                     user_profiles  |-> Ordered(how_users, Clustered)]
              /\ user_profiles = [u \in Clustered |-> ClusteredProfile(u)]
    /\ sampled_user_ids = <<>>
    /\ sampled_user_profiles = <<>>
    /\ user_feature_matrix = EmptyFrame
    /\ user_ids_set = {}
    /\ LET user_ids == KeysOf(user_profiles, insertion_order.user_profiles)
           rows == [i \in 1..Len(user_ids) |->
                       UserVector(user_profiles[user_ids[i]].feature_preferences)]
       IN  /\ user_features = rows
           /\ user_features_df = FrameOfRows(rows, user_ids)
    /\ raw_movie_features = <<>>
    /\ movie_features = <<>>
    /\ id_to_feature = NamesFrom(0)
    /\ movie_feature_matrix = EmptyFrame
    /\ movie_feature_matrix_no_meta = EmptyFrame
    /\ movie_data = EmptyFrame
    /\ movie_data_filtered = EmptyFrame
    /\ NoRatings /\ NoPruning /\ NoSelection
    /\ NoFits /\ NoLoading

NextUserFits ==
    \/ DropRuntimeFeatures \/ DropRuntimeFeaturesKeyError
    \/ PcaRaw \/ PcaRawValueError
    \/ MetricsRaw \/ MetricsRawValueError
    \/ ClusterBestK \/ ClusterPca300
    \/ Dbscan300 \/ Dbscan2

SpecUserFits == InitUserFits /\ [][NextUserFits]_vars

\* C11: no matrix given to PCA.fit_transform, KMeans.fit_predict or
\* DBSCAN.fit_predict is built from the column 'cluster' of user_features_df:
\* every fit is built from preference-ratio columns only.
FitsUseOnlyPreferenceColumns ==
    \A i \in 1..Len(fits) :
        /\ CLUSTER \notin Range(fits[i].built_from)
        /\ Range(fits[i].built_from) \subseteq FeatureIds

(***************************************************************************)
(* Classification: the ratings loading loop.  training_set is the folder   *)
(* of rating files, a file being the list of its lines.  A line is shown   *)
(* by the fields line.strip().split(',') gives; the first line of a file   *)
(* is the movie id followed by ':'.  The files follow the format of the    *)
(* Netflix data (a rating is one of the digits 1 to 5), with the           *)
(* deviations the loop tests for: an empty file, a movie that is not in    *)
(* movie_features, a line that does not have three fields, a user that is  *)
(* not sampled; and with one the loop does not test for: a rating that is  *)
(* not an integer, on which int(rating) raises a ValueError.  The user,    *)
(* rating and date of a line are fixed by its place, so that every line    *)
(* of the folder is different.                                             *)
(***************************************************************************)
\* max_entries = 1000000, scaled
max_entries == MaxRatings

\* lines after the first line of a file
MaxLines == 2

\* the files of the folder training_set
RatingFilePaths == <<"mv_0000001.txt", "mv_0000002.txt", "mv_0000003.txt">>

\* glob.glob(os.path.join(NETFLIX_FOLDER_PATH, "training_set", "*.txt")):
\* the files of the folder in the order the file system lists them, which
\* is any order
Glob(folder) == Arrangements(DOMAIN folder)

RatingDigits == <<"1", "2", "3", "4", "5">>

\* the rating fields of the lines: the digits and a text that is not an
\* integer
RatingTexts == <<"1", "2", "3", "4", "3.5", "5">>

\* int(rating) returns: of the rating fields, on the digits
IsIntLiteral(rating) == rating \in Range(RatingDigits)

\* int(rating)
IntOf(rating) == CHOOSE n \in 1..Len(RatingDigits) : RatingDigits[n] = rating

\* the first line of file f: a movie of movie_features, or another movie
MovieIdLine(movie_id) == <<movie_id, ":">>

\* a line 'user_id,rating,date'
RatingLine(user_id, f, l) ==
    <<user_id, RatingTexts[((f + l) % Len(RatingTexts)) + 1], 10 * f + l>>

\* a line that does not have three fields: blank in the first file, two
\* fields in the second, four fields in the others
MalformedLine(f, l) ==
    IF f = 1 THEN <<"">>
    ELSE IF f = 2 THEN <<((f + l) % k) + 1, "3">>
    ELSE <<((f + l) % k) + 1, RatingDigits[((f + l) % Len(RatingDigits)) + 1],
           10 * f + l, "">>

\* a line is the line of a sampled user or a line the loop skips; the
\* skipped line of a place is malformed or the line of a user who is not
\* sampled, in turn
LineKinds == {"sampled", "skipped"}

LineOf(kind, f, l) ==
    CASE kind = "sampled" -> RatingLine(((f + l) % k) + 1, f, l)
      [] kind = "skipped" ->
             IF (f + l) % 2 = 0 THEN MalformedLine(f, l)
             ELSE RatingLine(k + 1, f, l)

\* the contents file f may have
FileInputs(f) ==
    {<<>>}
    \cup {<<MovieIdLine(NumMovies + f)>> \o [l \in 1..n |-> LineOf("sampled", f, l)] :
             n \in 0..MaxLines}
    \cup UNION {{<<MovieIdLine(((f - 1) % NumMovies) + 1)>>
                     \o [l \in 1..n |-> LineOf(kinds[l], f, l)] :
                     kinds \in [1..n -> LineKinds]} : n \in 0..MaxLines}

\* the folders: file number f holds any of FileInputs(f)
RECURSIVE FoldersUpTo(_)
FoldersUpTo(f) ==
    IF f = 0 THEN {<<>>}
    ELSE {Append(s, c) : s \in FoldersUpTo(f - 1), c \in FileInputs(f)}

PlaceOf(file_path) ==
    CHOOSE f \in 1..Len(RatingFilePaths) : RatingFilePaths[f] = file_path

TrainingSetInputs ==
    {[file_path \in Range(RatingFilePaths) |-> s[PlaceOf(file_path)]] :
        s \in FoldersUpTo(Len(RatingFilePaths))}

\* f.readlines() of the file the loop is at
Lines == training_set[rating_files[file_pos]]

\* movie_id = lines[0].strip()[:-1]
MovieIdOf(lines) == SubSeq(lines[1], 1, Len(lines[1]) - 1)

\* a mutant of InMovieIdsSet: every file is processed
InMovieIdsSetAlways(movie_id, ids) == TRUE

\* movie_id in movie_ids_set
InMovieIdsSet(movie_id, ids) == movie_id \in {<<m>> : m \in ids}

\* a mutant of HasThreeParts: a line with more than three fields is kept
HasThreePartsOrMore(parts) == Len(parts) >= 3

\* not (len(parts) != 3)
HasThreeParts(parts) == Len(parts) = 3

\* a mutant of ReachedMax: the loop stops one entry late
ReachedMaxLate(total) == total > max_entries

\* total_entries >= max_entries
ReachedMax(total) == total >= max_entries

\* {'movie_id': movie_id, 'user_id': user_id, 'rating': int(rating), 'date': date}
RatingRecord(movie_id, parts) ==
    [movie_id |-> movie_id[1], user_id |-> parts[1],
     rating |-> IntOf(parts[2]), date |-> parts[3]]

loopVars == <<training_set, rating_files, movie_ids_set>>

\* the head of the cell: rating_files, movie_ids_set, user_ids_set,
\* ratings_data = [], total_entries = 0
BeginLoadRatings ==
    /\ pc = "load_ratings"
    /\ rating_files' \in Glob(training_set)
    /\ movie_ids_set' = DOMAIN movie_features
    /\ user_ids_set' = Range(sampled_user_ids)
    /\ ratings_data' = <<>>
    /\ total_entries' = 0
    /\ file_pos' = 0
    /\ line_pos' = 0
    /\ pc' = "for_file"
    /\ UNCHANGED <<training_set, ratings_df, user_profiles, sampled_user_ids,
                   sampled_user_profiles, user_feature_matrix, user_features,
                   user_features_df>>
    /\ UNCHANGED <<movieVars, pruneVars, selectionVars, fitVars>>
    /\ UNCHANGED insertion_order

\* for file_path in rating_files: ... if not lines: continue
SkipEmptyFile ==
    /\ pc = "for_file"
    /\ file_pos < Len(rating_files)
    /\ training_set[rating_files[file_pos + 1]] = <<>>
    /\ file_pos' = file_pos + 1
    /\ UNCHANGED <<pc, line_pos, total_entries, loopVars>>
    /\ UNCHANGED <<movieVars, userVars, ratingVars, pruneVars, selectionVars,
                   fitVars>>
    /\ UNCHANGED insertion_order

\* the movie id is not in movie_ids_set: the lines are not read; the test
\* after the if does not break, total_entries being below max_entries
SkipUnknownMovie ==
    /\ pc = "for_file"
    /\ file_pos < Len(rating_files)
    /\ LET lines == training_set[rating_files[file_pos + 1]]
       IN  /\ lines # <<>>
           /\ ~InMovieIdsSet(MovieIdOf(lines), movie_ids_set)
    /\ file_pos' = file_pos + 1
    /\ pc' = IF ReachedMax(total_entries) THEN "build_ratings_df" ELSE "for_file"
    /\ UNCHANGED <<line_pos, total_entries, loopVars>>
    /\ UNCHANGED <<movieVars, userVars, ratingVars, pruneVars, selectionVars,
                   fitVars>>
    /\ UNCHANGED insertion_order

\* the movie id is in movie_ids_set: for line in lines[1:]
OpenMovieFile ==
    /\ pc = "for_file"
    /\ file_pos < Len(rating_files)
    /\ LET lines == training_set[rating_files[file_pos + 1]]
       IN  /\ lines # <<>>
           /\ InMovieIdsSet(MovieIdOf(lines), movie_ids_set)
    /\ file_pos' = file_pos + 1
    /\ line_pos' = 1
    /\ pc' = "for_line"
    /\ UNCHANGED <<total_entries, loopVars>>
    /\ UNCHANGED <<movieVars, userVars, ratingVars, pruneVars, selectionVars,
                   fitVars>>
    /\ UNCHANGED insertion_order

\* parts = line.strip().split(','); if len(parts) != 3: continue
SkipMalformedLine ==
    /\ pc = "for_line"
    /\ line_pos < Len(Lines)
    /\ ~HasThreeParts(Lines[line_pos + 1])
    /\ line_pos' = line_pos + 1
    /\ UNCHANGED <<pc, file_pos, total_entries, loopVars>>
    /\ UNCHANGED <<movieVars, userVars, ratingVars, pruneVars, selectionVars,
                   fitVars>>
    /\ UNCHANGED insertion_order

\* user_id, rating, date = parts; user_id is not in user_ids_set
SkipOtherUser ==
    /\ pc = "for_line"
    /\ line_pos < Len(Lines)
    /\ HasThreeParts(Lines[line_pos + 1])
    /\ Lines[line_pos + 1][1] \notin user_ids_set
    /\ line_pos' = line_pos + 1
    /\ UNCHANGED <<pc, file_pos, total_entries, loopVars>>
    /\ UNCHANGED <<movieVars, userVars, ratingVars, pruneVars, selectionVars,
                   fitVars>>
    /\ UNCHANGED insertion_order

\* ratings_data.append({...}); total_entries += 1
\* if total_entries >= max_entries: break    (and the two breaks after it)
AppendRating ==
    /\ pc = "for_line"
    /\ line_pos < Len(Lines)
    /\ HasThreeParts(Lines[line_pos + 1])
    /\ Lines[line_pos + 1][1] \in user_ids_set
    /\ IsIntLiteral(Lines[line_pos + 1][2])
    /\ ratings_data' = Append(ratings_data,
                              RatingRecord(MovieIdOf(Lines), Lines[line_pos + 1]))
    /\ total_entries' = total_entries + 1
    /\ line_pos' = line_pos + 1
    /\ pc' = IF ReachedMax(total_entries + 1) THEN "build_ratings_df"
             ELSE "for_line"
    /\ UNCHANGED <<file_pos, loopVars, ratings_df>>
    /\ UNCHANGED <<movieVars, userVars, pruneVars, selectionVars, fitVars>>
    /\ UNCHANGED insertion_order

\* 'rating': int(rating) raises a ValueError: nothing is appended, the cell
\* ends and ratings_df is not built
AppendRatingValueError ==
    /\ pc = "for_line"
    /\ line_pos < Len(Lines)
    /\ HasThreeParts(Lines[line_pos + 1])
    /\ Lines[line_pos + 1][1] \in user_ids_set
    /\ ~IsIntLiteral(Lines[line_pos + 1][2])
    /\ pc' = "error"
    /\ UNCHANGED <<file_pos, line_pos, total_entries, loopVars>>
    /\ UNCHANGED <<movieVars, userVars, ratingVars, pruneVars, selectionVars,
                   fitVars>>
    /\ UNCHANGED insertion_order

\* the lines of the file are exhausted; the tests after the inner loop
EndOfFile ==
    /\ pc = "for_line"
    /\ line_pos >= Len(Lines)
    /\ pc' = IF ReachedMax(total_entries) THEN "build_ratings_df" ELSE "for_file"
    /\ UNCHANGED <<file_pos, line_pos, total_entries, loopVars>>
    /\ UNCHANGED <<movieVars, userVars, ratingVars, pruneVars, selectionVars,
                   fitVars>>
    /\ UNCHANGED insertion_order

\* rating_files is exhausted
EndOfFiles ==
    /\ pc = "for_file"
    /\ file_pos >= Len(rating_files)
    /\ pc' = "build_ratings_df"
    /\ UNCHANGED <<file_pos, line_pos, total_entries, loopVars>>
    /\ UNCHANGED <<movieVars, userVars, ratingVars, pruneVars, selectionVars,
                   fitVars>>
    /\ UNCHANGED insertion_order

\* ratings_df = pd.DataFrame(ratings_data)
BuildRatingsDf ==
    /\ pc = "build_ratings_df"
    /\ ratings_df' = ratings_data
    /\ pc' = "done"
    /\ UNCHANGED <<ratings_data, loadVars>>
    /\ UNCHANGED <<movieVars, userVars, pruneVars, selectionVars, fitVars>>
    /\ UNCHANGED insertion_order

\* the state before the ratings cell: the movies of movie_features, the
\* sampled users, the files of the training set
InitLoadRatings ==
    /\ pc = "load_ratings"
    /\ insertion_order = InsertionOrder("ascending", "ascending", "ascending")
    /\ training_set \in TrainingSetInputs
    /\ rating_files = <<>>
    /\ movie_ids_set = {}
    /\ file_pos = 0
    /\ line_pos = 0
    /\ total_entries = 0
    /\ raw_movie_features = <<>>
    /\ movie_features = [m \in Movies |-> SortedSeq(FeatureIds)]
    /\ id_to_feature = NamesFrom(0)
    /\ movie_feature_matrix = EmptyFrame
    /\ movie_feature_matrix_no_meta = EmptyFrame
    /\ movie_data = EmptyFrame
    /\ movie_data_filtered = EmptyFrame
    /\ user_profiles = <<>>
    /\ sampled_user_ids = [i \in 1..k |-> i]
    /\ sampled_user_profiles = <<>>
    /\ user_feature_matrix = EmptyFrame
    /\ user_ids_set = {}
    /\ user_features = <<>>
    /\ user_features_df = EmptyFrame
    /\ NoRatings /\ NoPruning /\ NoSelection /\ NoFits

NextLoadRatings ==
    \/ BeginLoadRatings
    \/ SkipEmptyFile \/ SkipUnknownMovie \/ OpenMovieFile
    \/ SkipMalformedLine \/ SkipOtherUser
    \/ AppendRating \/ AppendRatingValueError
    \/ EndOfFile \/ EndOfFiles
    \/ BuildRatingsDf

SpecLoadRatings == InitLoadRatings /\ [][NextLoadRatings]_vars

\* the loop is over: a break has been taken or rating_files is exhausted
LoadingOver == pc \in {"build_ratings_df", "done"}

\* C12: total_entries is always the number of records of ratings_data and is
\* never greater than max_entries; once total_entries has reached max_entries
\* no further line and no further file is read and nothing more is loaded.
TotalEntriesWithinMax ==
    /\ [](/\ total_entries = Len(ratings_data)
          /\ total_entries <= max_entries)
    /\ [][total_entries >= max_entries =>
              /\ file_pos' = file_pos
              /\ line_pos' = line_pos
              /\ ratings_data' = ratings_data
              /\ total_entries' = total_entries]_vars

\* the loop has stopped at max_entries with a line of a sampled user next in
\* the current file and files left in rating_files
TotalEntriesWitness ==
    /\ pc = "done"
    /\ total_entries = max_entries
    /\ file_pos < Len(rating_files)
    /\ line_pos < Len(training_set[rating_files[file_pos]])
    /\ LET line == training_set[rating_files[file_pos]][line_pos + 1]
       IN  Len(line) = 3 /\ line[1] \in Range(sampled_user_ids)
    /\ training_set[rating_files[file_pos + 1]] # <<>>

\* the file of movie m: its first line is m followed by ':'
IsFileOfMovie(lines, m) == lines # <<>> /\ lines[1] = <<m, ":">>

\* the record r is the line 'user_id,rating,date' of a file of r's movie
ComesFromLine(r, lines, l) ==
    /\ IsFileOfMovie(lines, r.movie_id)
    /\ Len(lines[l]) = 3
    /\ lines[l] = <<r.user_id, RatingDigits[r.rating], r.date>>

\* the file or line the step reads is one the loop skips
ReadsSkippedFile ==
    /\ file_pos' = file_pos + 1
    /\ LET lines == training_set[rating_files[file_pos']]
       IN  \/ lines = <<>>
           \/ \A m \in DOMAIN movie_features : ~IsFileOfMovie(lines, m)

ReadsSkippedLine ==
    /\ line_pos' = line_pos + 1
    /\ file_pos' = file_pos
    /\ LET line == training_set[rating_files[file_pos]][line_pos']
       IN  \/ Len(line) # 3
           \/ Len(line) = 3 /\ line[1] \notin Range(sampled_user_ids)

\* C13: every record of ratings_data is a line with exactly three fields, of
\* a file whose first line is a movie id of movie_features followed by ':',
\* with a sampled user; reading an empty file, a file of another movie, a
\* line that does not have three fields or a line of a user who is not
\* sampled leaves ratings_data and total_entries as they are, and the loop
\* goes on.
RecordsComeFromQualifyingLines ==
    /\ [](\A i \in 1..Len(ratings_data) :
              LET r == ratings_data[i]
              IN  /\ r.movie_id \in DOMAIN movie_features
                  /\ r.user_id \in Range(sampled_user_ids)
                  /\ \E file_path \in Range(RatingFilePaths) :
                     \E l \in 2..Len(training_set[file_path]) :
                         ComesFromLine(r, training_set[file_path], l))
    /\ [][(pc \in {"for_file", "for_line"}
              /\ (ReadsSkippedFile \/ ReadsSkippedLine)) =>
              /\ ratings_data' = ratings_data
              /\ total_entries' = total_entries
              /\ pc' \in {"for_file", "for_line"}]_vars

\* an empty file and a file of another movie were passed, then a line that
\* is skipped, and the line after it was loaded
RecordsWitness ==
    /\ pc = "done"
    /\ training_set[rating_files[1]] = <<>>
    /\ \A m \in DOMAIN movie_features :
           ~IsFileOfMovie(training_set[rating_files[2]], m)
    /\ Len(training_set[rating_files[2]]) > 1
    /\ rating_files[3] = RatingFilePaths[1]
    /\ LET lines == training_set[rating_files[3]]
       IN  /\ Len(lines) = 3
           /\ Len(lines[2]) # 3 \/ lines[2][1] \notin Range(sampled_user_ids)
           /\ Len(ratings_data) = 1
           /\ ComesFromLine(ratings_data[1], lines, 3)

\* the loop is a sequential program: it takes its next step as long as it
\* has one
SpecLoadRatingsFair == SpecLoadRatings /\ WF_vars(NextLoadRatings)

\* a qualifying line: three fields and a sampled user
IsQualifyingLine(line) ==
    Len(line) = 3 /\ line[1] \in Range(sampled_user_ids)

\* the qualifying lines of a file with the movie of the file, in line
\* order; none when the file is empty or its movie is not in movie_features
QualifyingOfFile(lines) ==
    IF lines = <<>> \/ lines[1][1] \notin DOMAIN movie_features THEN <<>>
    ELSE LET qualifying == SelectSeq(Tail(lines), IsQualifyingLine)
         IN  [n \in 1..Len(qualifying) |->
                 [movie_id |-> lines[1][1], parts |-> qualifying[n]]]

\* the qualifying lines of the first f files of rating_files, in file order
RECURSIVE QualifyingUpTo(_)
QualifyingUpTo(f) ==
    IF f = 0 THEN <<>>
    ELSE QualifyingUpTo(f - 1) \o QualifyingOfFile(training_set[rating_files[f]])

AllQualifying == QualifyingUpTo(Len(rating_files))

\* the rating of a qualifying line is an integer
HasIntegerRating(q) == \E stars \in Stars : RatingDigits[stars] = q.parts[2]

\* the record of a qualifying line with an integer rating
RecordOf(q) ==
    [movie_id |-> q.movie_id,
     user_id  |-> q.parts[1],
     rating   |-> CHOOSE stars \in Stars : RatingDigits[stars] = q.parts[2],
     date     |-> q.parts[3]]

\* the records of the first n of the qualifying lines
RecordsOfFirst(n) == [i \in 1..n |-> RecordOf(AllQualifying[i])]

\* the number of qualifying lines before the first whose rating is not an
\* integer; all of them when there is none
IntegerRated ==
    CHOOSE n \in 0..Len(AllQualifying) :
        /\ \A i \in 1..n : HasIntegerRating(AllQualifying[i])
        /\ n < Len(AllQualifying) => ~HasIntegerRating(AllQualifying[n + 1])

\* C14 as it is stated, without the ValueError of int(rating): the loop
\* terminates; when it has, the number of loaded ratings is the
\* smaller of max_entries and the number of qualifying lines of all files,
\* and when there are fewer than max_entries qualifying lines ratings_data
\* is exactly these lines, each once, in file order and line order.
LoadingTerminatesWithAllQualifying ==
    /\ <>(pc = "done")
    /\ [](pc = "done" =>
              /\ Len(ratings_df) = Min({max_entries, Len(AllQualifying)})
              /\ Len(ratings_data) = Len(ratings_df)
              /\ Len(AllQualifying) < max_entries =>
                     ratings_data = RecordsOfFirst(Len(AllQualifying)))

\* C14: the loading cell terminates, with ratings_df built or with the
\* ValueError of int(rating).  With Q the number of qualifying lines of all
\* files, it ends with ratings_df built exactly when the first
\* min(max_entries, Q) qualifying lines have integer ratings: then the
\* number of loaded ratings is min(max_entries, Q), and when Q < max_entries
\* ratings_data is exactly the qualifying lines, each once, in file order
\* and line order.  Otherwise it ends with the ValueError at the first
\* qualifying line whose rating is not an integer: the qualifying lines
\* before it are loaded, in order, and ratings_df is not built.
LoadingTerminatesOrRaises ==
    /\ <>(pc \in {"done", "error"})
    /\ [](pc \in {"done", "error"} =>
              LET loadable == Min({max_entries, Len(AllQualifying)})
              IN  /\ pc = "done" <=> IntegerRated >= loadable
                  /\ total_entries = Len(ratings_data)
                  /\ pc = "done" =>
                         /\ Len(ratings_df) = loadable
                         /\ Len(ratings_data) = Len(ratings_df)
                         /\ Len(AllQualifying) < max_entries =>
                                ratings_data = RecordsOfFirst(Len(AllQualifying))
                  /\ pc = "error" =>
                         /\ ratings_data = RecordsOfFirst(IntegerRated)
                         /\ ratings_df = <<>>)

\* the loop is over with fewer than max_entries qualifying lines, loaded
\* from two files, past a skipped line and past a file of another movie
\* that holds a line of a sampled user whose rating is not an integer
LoadingWitness ==
    /\ pc = "done"
    /\ Len(AllQualifying) = 2
    /\ Len(AllQualifying) < max_entries
    /\ Len(ratings_data) = 2
    /\ ratings_data[1].movie_id # ratings_data[2].movie_id
    /\ rating_files[1] = RatingFilePaths[3]
    /\ Len(training_set[rating_files[1]]) = 3
    /\ ratings_data[1].date = training_set[rating_files[1]][3][3]
    /\ Len(training_set[rating_files[2]]) > 1
    /\ QualifyingOfFile(training_set[rating_files[2]]) = <<>>
    /\ \E l \in 2..Len(training_set[rating_files[2]]) :
           LET line == training_set[rating_files[2]][l]
           IN  IsQualifyingLine(line) /\ ~IsIntLiteral(line[2])

=============================================================================
